---- MODULE Spec2Model ----
(***************************************************************************)
(* Model of the WorkflowOrchestrator (src/unnamed/part_003): the workflow  *)
(* state store, the five public operations and the adapter calls they      *)
(* issue.  An operation suspends only at an adapter call; every action     *)
(* below is one synchronous stretch of a handler between two suspensions.  *)
(*                                                                         *)
(* Strings that the code builds or takes apart (workflow ids, repository   *)
(* names, URLs, error messages) are sequences of characters; a character   *)
(* is written as a TLA+ string ("pr", "-", "/", ...).  Status labels are   *)
(* never taken apart and are plain TLA+ strings.  The lastUpdated          *)
(* timestamp of a record is left out: no decision of the code reads it.    *)
(***************************************************************************)
EXTENDS Integers, Sequences, FiniteSets, TLC

VARIABLES
    workflowState,  \* Map<string, WorkflowStatus>: id -> [id, type, status, services]
    heap,           \* the services objects: reference -> services map
    proc,           \* the call of each caller: its arguments, position and locals
    created,        \* ids ever written by updateWorkflowStatus (history)
    focus,          \* the workflow id the callers synchronise in this run
    agent           \* the call of the LLM adapter that is looked at on its own

vars == <<workflowState, heap, proc, created, focus, agent>>

----------------------------------------------------------------------------
(* Bounds *)

MaxPlatforms == 2   \* length of an explicit platforms argument

\* one caller drives the orchestrator at a time
Callers == {"caller"}
\* two callers whose operations interleave at the adapter calls
RaceCallers == {"caller", "other"}

\* the callers of this run
Procs == DOMAIN proc

----------------------------------------------------------------------------
(* Strings *)

RECURSIVE Split(_, _)
\* String.prototype.split with a one-character separator
Split(s, sep) ==
    IF s = <<>> THEN << <<>> >>
    ELSE LET rest == Split(Tail(s), sep)
         IN  IF Head(s) = sep
             THEN << <<>> >> \o rest
             ELSE << <<Head(s)>> \o Head(rest) >> \o Tail(rest)

\* !parts[i] : the element is undefined or the empty string
Falsy(parts, i) == (i \notin 1..Len(parts)) \/ parts[i] = <<>>

\* `${n}` of a number
NumStr(n) == <<ToString(n)>>

\* haystack.includes(needle) on strings
Includes(hay, needle) ==
    \E i \in 0..(Len(hay) - Len(needle)) :
        SubSeq(hay, i + 1, i + Len(needle)) = needle

----------------------------------------------------------------------------
(* Inputs *)

Owners == { <<"o">> }
PullNumbers == { 1 }
Repos == { <<"r">> }
IssueKeys == { <<"PROJ", "-", "1">> }
Versions == { <<"v1">> }
\* repository: owner/repo, and three that lack an owner or a repo
Repositories == { <<"o", "/", "r">>, <<"o">>, <<"o", "/">>, <<"/", "r">> }
JiraProjects == { <<"PROJ">> }
ChannelNames == { <<"#", "rel">> }
ChannelIds == { <<"C1">> }
TeamNames == { <<"team">> }
\* github_issue_url: absent, an issue URL, and two that do not parse
GithubIssueUrls ==
    { <<>>,
      <<"https:", "/", "/", "github.com", "/", "o", "/", "r", "/", "issues", "/", "7">>,
      <<"o", "/", "r", "/", "issues", "/">>,
      <<"issues", "/", "7">> }
\* readiness scores the LLM adapter reports
Scores == { 0, 69, 70, 84, 85, 250 }
StatusUpdates == { "in-review", "deploy failed" }
Platforms == { "github", "jira", "slack" }

DefaultPlatforms == <<"github", "jira", "slack">>

PlatformLists == UNION { [1..n -> Platforms] : n \in 0..MaxPlatforms }
\* the platforms argument: omitted, or an explicit list
PlatformArgs ==
    { [given |-> FALSE, list |-> <<>>] }
        \cup { [given |-> TRUE, list |-> l] : l \in PlatformLists }

PRWorkflowId(owner, repo, n) ==
    <<"pr", "-">> \o owner \o <<"-">> \o repo \o <<"-">> \o NumStr(n)
TriageWorkflowId(key) == <<"triage", "-">> \o key
ReleaseWorkflowId(version) == <<"release", "-">> \o version

\* the ids the operations can create, and one that none of them creates
WorkflowIds ==
    { PRWorkflowId(o, r, n) : o \in Owners, r \in Repos, n \in PullNumbers }
        \cup { TriageWorkflowId(k) : k \in IssueKeys }
        \cup { ReleaseWorkflowId(v) : v \in Versions }
UnknownId == <<"pr", "-", "x">>

----------------------------------------------------------------------------
(* Errors: the adapter or statement that raised it, and its message *)

FormatError ==
    [src |-> "orchestrateRelease",
     msg |-> <<"Invalid repository format. Expected ", "\"", "owner", "/", "repo", "\"">>]
ChannelNotFoundError(name) ==
    [src |-> "orchestrateRelease", msg |-> <<"Slack channel ">> \o name \o <<" not found">>]
AdapterError(call) == [src |-> call, msg |-> <<"service error">>]
NotFoundError(id) ==
    [src |-> "syncWorkflowStatus", msg |-> <<"Workflow ">> \o id \o <<" not found">>]
NoError == [src |-> "", msg |-> <<>>]

----------------------------------------------------------------------------
(* The LLM adapter: OpenAIAgent.analyzeContext (src/agents/openai.ts) *)

MinConfidence == 0
MaxConfidence == 100

\* how far outside MinConfidence..MaxConfidence a reported confidence lies
MaxOver == 60

\* a JavaScript number: an integer, or NaN
Num(n) == [nan |-> FALSE, v |-> n]
NaN == [nan |-> TRUE, v |-> 0]

\* Math.min and Math.max: NaN when an argument is NaN
MathMin(a, b) == IF a.nan \/ b.nan THEN NaN ELSE IF a.v <= b.v THEN a ELSE b
MathMax(a, b) == IF a.nan \/ b.nan THEN NaN ELSE IF a.v >= b.v THEN a ELSE b

\* mutant: the upper limit is not applied
ClampConfidenceNoCeiling(confidence) == MathMax(Num(MinConfidence), confidence)

\* Math.max(0, Math.min(100, parsedResult.confidence))
ClampConfidence(confidence) ==
    MathMax(Num(MinConfidence), MathMin(Num(MaxConfidence), confidence))

PromptTypes == { "pr_analysis", "issue_triage", "release_readiness", "team_insights" }

\* parsedResult.confidence as a number: the number the reply carries, NaN
\* when the reply carries none (undefined)
ReportedConfidences ==
    { Num(n) : n \in (MinConfidence - MaxOver)..(MaxConfidence + MaxOver) } \cup { NaN }

AgentIdle ==
    [pc |-> "idle", type |-> "", reported |-> NaN, outcome |-> "none", confidence |-> NaN]

\* analyzeContext up to the await of chat.completions.create
AnalyzeContext ==
    /\ agent.pc = "idle"
    /\ \E t \in PromptTypes : agent' = [AgentIdle EXCEPT !.pc = "waiting", !.type = t]
    /\ UNCHANGED <<workflowState, heap, proc, created, focus>>

\* the completion arrives with content that parses: the result is returned
AgentReplied ==
    /\ agent.pc = "waiting"
    /\ \E c \in ReportedConfidences :
        agent' = [agent EXCEPT !.pc = "done", !.outcome = "resolved",
                               !.reported = c, !.confidence = ClampConfidence(c)]
    /\ UNCHANGED <<workflowState, heap, proc, created, focus>>

\* the request rejects, the reply has no content or does not parse: the
\* catch block throws a ServiceError
AgentFailed ==
    /\ agent.pc = "waiting"
    /\ agent' = [agent EXCEPT !.pc = "done", !.outcome = "rejected"]
    /\ UNCHANGED <<workflowState, heap, proc, created, focus>>

\* the caller takes the settled result
AgentReturn ==
    /\ agent.pc = "done"
    /\ agent' = AgentIdle
    /\ UNCHANGED <<workflowState, heap, proc, created, focus>>

----------------------------------------------------------------------------
(* JavaScript numbers in calculateVelocityTrend: IEEE-754 binary64, rounded
   to nearest, ties to even. The values here stay far from overflow and
   from the subnormal range, so exponents are unbounded integers. *)

\* a natural number of any size: its digits in base LimbBase, lowest first,
\* without a leading zero digit
LimbBits == 15
LimbBase == 2^LimbBits

\* the bits of a binary64 significand
MantissaBits == 53

RECURSIVE Limbs(_)
Limbs(n) == IF n = 0 THEN <<>> ELSE <<n % LimbBase>> \o Limbs(n \div LimbBase)

RECURSIVE Trim(_)
Trim(a) ==
    IF a # <<>> /\ a[Len(a)] = 0 THEN Trim(SubSeq(a, 1, Len(a) - 1)) ELSE a

RECURSIVE BitsOf(_)
BitsOf(n) == IF n = 0 THEN 0 ELSE 1 + BitsOf(n \div 2)

BitLen(a) == IF a = <<>> THEN 0 ELSE LimbBits * (Len(a) - 1) + BitsOf(a[Len(a)])

RECURSIVE AddCarry(_, _, _)
AddCarry(a, b, carry) ==
    IF a = <<>> /\ b = <<>> THEN Limbs(carry)
    ELSE LET x == IF a = <<>> THEN 0 ELSE a[1]
             y == IF b = <<>> THEN 0 ELSE b[1]
             t == x + y + carry
         IN  <<t % LimbBase>>
                \o AddCarry(IF a = <<>> THEN a ELSE Tail(a),
                            IF b = <<>> THEN b ELSE Tail(b), t \div LimbBase)

\* a * k + carry for a digit k
RECURSIVE MulDigit(_, _, _)
MulDigit(a, k, carry) ==
    IF a = <<>> THEN Limbs(carry)
    ELSE LET t == a[1] * k + carry
         IN  <<t % LimbBase>> \o MulDigit(Tail(a), k, t \div LimbBase)

RECURSIVE MulLimbs(_, _)
MulLimbs(a, b) ==
    IF b = <<>> THEN <<>>
    ELSE AddCarry(MulDigit(a, b[1], 0), <<0>> \o MulLimbs(a, Tail(b)), 0)

\* a divided by k, 0 < k <= LimbBase: quotient q and remainder r
RECURSIVE DivDigit(_, _)
DivDigit(a, k) ==
    IF a = <<>> THEN [q |-> <<>>, r |-> 0]
    ELSE LET hi == DivDigit(Tail(a), k)
             t == hi.r * LimbBase + a[1]
         IN  [q |-> <<t \div k>> \o hi.q, r |-> t % k]

\* a * 2^s
ShiftLeft(a, s) ==
    Trim([i \in 1..(s \div LimbBits) |-> 0] \o MulDigit(a, 2^(s % LimbBits), 0))

\* a \div 2^s
ShiftRight(a, s) ==
    LET d == s \div LimbBits
    IN  IF d >= Len(a) THEN <<>>
        ELSE Trim(DivDigit(SubSeq(a, d + 1, Len(a)), 2^(s % LimbBits)).q)

RECURSIVE Greater(_, _)
Greater(a, b) ==
    IF Len(a) # Len(b) THEN Len(a) > Len(b)
    ELSE IF a = <<>> THEN FALSE
    ELSE IF a[Len(a)] # b[Len(b)] THEN a[Len(a)] > b[Len(b)]
    ELSE Greater(SubSeq(a, 1, Len(a) - 1), SubSeq(b, 1, Len(b) - 1))

\* a binary64 value: NaN, 0, or m * 2^e with 2^52 <= m < 2^53
NaNDouble == [kind |-> "nan", m |-> <<>>, e |-> 0]
ZeroDouble == [kind |-> "zero", m |-> <<>>, e |-> 0]
Double(m, e) == [kind |-> "num", m |-> m, e |-> e]

\* the binary64 nearest to (n + f) * 2^e, ties to even, where n > 0 and the
\* fraction f is 0 unless inexact, and then 0 < f < 1 and n has more than
\* MantissaBits bits
RoundDouble(n, inexact, e) ==
    LET len == BitLen(n)
        sh == len - MantissaBits
    IN  IF sh <= 0
        THEN Double(ShiftLeft(n, -sh), e + sh)
        ELSE LET q2 == ShiftRight(n, sh - 1)
                 q == ShiftRight(q2, 1)
                 guard == q2[1] % 2
                 rest == inexact \/ ShiftLeft(q2, sh - 1) # n
                 up == guard = 1 /\ (rest \/ q[1] % 2 = 1)
                 r == IF up THEN AddCarry(q, <<1>>, 0) ELSE q
             IN  IF BitLen(r) > MantissaBits
                 THEN Double(ShiftRight(r, 1), e + sh + 1)
                 ELSE Double(r, e + sh)

\* s / n for integers 0 <= s and 0 <= n <= LimbBase; the sum of an empty
\* slice is 0 and its length is 0, and 0 / 0 is NaN
Quotient(s, n) ==
    IF n = 0 THEN NaNDouble
    ELSE IF s = 0 THEN ZeroDouble
    ELSE LET t == MantissaBits + 2 + BitsOf(n)
             d == DivDigit(ShiftLeft(Limbs(s), t), n)
         IN  RoundDouble(Trim(d.q), d.r # 0, -t)

\* x * y
Times(x, y) ==
    IF x.kind = "nan" \/ y.kind = "nan" THEN NaNDouble
    ELSE IF x.kind = "zero" \/ y.kind = "zero" THEN ZeroDouble
    ELSE RoundDouble(Trim(MulLimbs(x.m, y.m)), FALSE, x.e + y.e)

\* x > y for values that are not negative; false when either is NaN
GreaterThan(x, y) ==
    IF x.kind = "nan" \/ y.kind = "nan" THEN FALSE
    ELSE IF x.kind = "zero" THEN FALSE
    ELSE IF y.kind = "zero" THEN TRUE
    ELSE x.e > y.e \/ (x.e = y.e /\ Greater(x.m, y.m))

\* the literals 1.1 and 0.9: the binary64 nearest to 11/10 and to 9/10
IncreaseFactor == Quotient(11, 10)
DecreaseFactor == Quotient(9, 10)

RECURSIVE Sum(_)
Sum(h) == IF h = <<>> THEN 0 ELSE h[1] + Sum(Tail(h))

\* historical.slice(-3) and historical.slice(0, -3)
Recent(h) == SubSeq(h, IF Len(h) > 3 THEN Len(h) - 2 ELSE 1, Len(h))
Earlier(h) == IF Len(h) > 3 THEN SubSeq(h, 1, Len(h) - 3) ELSE <<>>

calculateVelocityTrend(historical) ==
    IF Len(historical) < 2 THEN "stable"
    ELSE LET recentAvg == Quotient(Sum(Recent(historical)), Len(Recent(historical)))
             earlierAvg == Quotient(Sum(Earlier(historical)), Len(Earlier(historical)))
         IN  IF GreaterThan(recentAvg, Times(earlierAvg, IncreaseFactor)) THEN "increasing"
             ELSE IF GreaterThan(Times(earlierAvg, DecreaseFactor), recentAvg) THEN "decreasing"
             ELSE "stable"

----------------------------------------------------------------------------
(* The LLM adapter's extractors of structured data (src/agents/openai.ts) *)

\* the upper-case letters and words of the texts, with their lower case
LowerCase ==
    ("A" :> "a") @@ ("B" :> "b") @@ ("L" :> "l") @@ ("O" :> "o")
        @@ ("Critical" :> "critical") @@ ("HIGH" :> "high") @@ ("Risk" :> "risk")
        @@ ("Medium" :> "medium") @@ ("PRIORITY" :> "priority")
        @@ ("Moderate" :> "moderate") @@ ("Requires" :> "requires")
        @@ ("DEPENDS" :> "depends") @@ ("ON" :> "on") @@ ("PROJ" :> "proj")

\* String.prototype.toLowerCase
toLowerCase(s) ==
    [i \in DOMAIN s |-> IF s[i] \in DOMAIN LowerCase THEN LowerCase[s[i]] ELSE s[i]]

\* array.slice(0, n)
Take(a, n) == SubSeq(a, 1, IF Len(a) < n THEN Len(a) ELSE n)

\* teamMembers.filter(member => analysis.toLowerCase().includes(member.toLowerCase()))
RECURSIVE FilterMentioned(_, _)
FilterMentioned(analysis, members) ==
    IF members = <<>> THEN <<>>
    ELSE (IF Includes(toLowerCase(analysis), toLowerCase(Head(members)))
          THEN <<Head(members)>> ELSE <<>>)
            \o FilterMentioned(analysis, Tail(members))

\* an optional array argument: undefined, or the array
Undefined == [defined |-> FALSE, v |-> <<>>]
Defined(a) == [defined |-> TRUE, v |-> a]

\* mutant: the mentioned members are not cut to three
extractReviewersUncut(analysis, teamMembers) ==
    IF ~teamMembers.defined THEN <<>>
    ELSE LET mentioned == FilterMentioned(analysis, teamMembers.v)
         IN  IF Len(mentioned) > 0 THEN mentioned ELSE Take(teamMembers.v, 2)

extractReviewers(analysis, teamMembers) ==
    IF ~teamMembers.defined THEN <<>>
    ELSE LET mentioned == FilterMentioned(analysis, teamMembers.v)
         IN  IF Len(mentioned) > 0 THEN Take(mentioned, 3) ELSE Take(teamMembers.v, 2)

extractRiskLevel(analysis) ==
    LET lowerAnalysis == toLowerCase(analysis)
    IN  IF Includes(lowerAnalysis, <<"high", " ", "risk">>)
            \/ Includes(lowerAnalysis, <<"critical">>) THEN "high"
        ELSE IF Includes(lowerAnalysis, <<"medium", " ", "risk">>)
            \/ Includes(lowerAnalysis, <<"moderate">>) THEN "medium"
        ELSE "low"

\* mutant: the keywords of medium are looked for first
extractPriorityMediumFirst(analysis) ==
    LET lowerAnalysis == toLowerCase(analysis)
    IN  IF Includes(lowerAnalysis, <<"medium", " ", "priority">>) THEN "medium"
        ELSE IF Includes(lowerAnalysis, <<"critical">>) THEN "critical"
        ELSE IF Includes(lowerAnalysis, <<"high", " ", "priority">>) THEN "high"
        ELSE "low"

extractPriority(analysis) ==
    LET lowerAnalysis == toLowerCase(analysis)
    IN  IF Includes(lowerAnalysis, <<"critical">>) THEN "critical"
        ELSE IF Includes(lowerAnalysis, <<"high", " ", "priority">>) THEN "high"
        ELSE IF Includes(lowerAnalysis, <<"medium", " ", "priority">>) THEN "medium"
        ELSE "low"

\* value || 'medium' on a string
OrMedium(value) == IF value = "" THEN "medium" ELSE value

\* the character at position i of a text, "" past its end
At(text, i) == IF i \in 1..Len(text) THEN text[i] ELSE ""
Lower(t) == toLowerCase(<<t>>)[1]

\* the words of the texts that consist of letters, of digits, and of word
\* characters ( [A-Z]+ under the flag i, \d+ and \w+ )
LetterWords == { "PROJ", "proj", "user", "auth" }
DigitWords == { "55", "12" }
WordTokens == LetterWords \cup DigitWords \cup { "v2" }

\* \s+ at position i: the position after the spaces, 0 when there is none
RECURSIVE AfterSpaces(_, _)
AfterSpaces(text, i) ==
    IF At(text, i) # " " THEN 0
    ELSE LET j == AfterSpaces(text, i + 1) IN IF j = 0 THEN i + 1 ELSE j

\* (depends?\s+on|blocked?\s+by|requires?) at position i: the position
\* after the match, 0 when there is none
AfterPhrase(text, i) ==
    LET w == Lower(At(text, i))
        j == AfterSpaces(text, i + 1)
    IN  IF w \in {"depend", "depends"} /\ j # 0 /\ Lower(At(text, j)) = "on" THEN j + 1
        ELSE IF w \in {"blocke", "blocked"} /\ j # 0 /\ Lower(At(text, j)) = "by" THEN j + 1
        ELSE IF w \in {"require", "requires"} THEN i + 1
        ELSE 0

\* ([A-Z]+-\d+|#\d+|\w+-\w+) at position i: the length of the match, 0 when
\* there is none
ReferenceLength(text, i) ==
    IF At(text, i) \in LetterWords /\ At(text, i + 1) = "-" /\ At(text, i + 2) \in DigitWords
    THEN 3
    ELSE IF At(text, i) = "#" /\ At(text, i + 1) \in DigitWords THEN 2
    ELSE IF At(text, i) \in WordTokens /\ At(text, i + 1) = "-" /\ At(text, i + 2) \in WordTokens
    THEN 3
    ELSE 0

\* depPattern at position i: where match[2] starts and where the match ends;
\* to is 0 when there is no match
MatchAt(text, i) ==
    LET j == AfterPhrase(text, i)
        k == IF j = 0 THEN 0 ELSE AfterSpaces(text, j)
        n == IF k = 0 THEN 0 ELSE ReferenceLength(text, k)
    IN  IF n = 0 THEN [from |-> 0, to |-> 0] ELSE [from |-> k, to |-> k + n]

\* depPattern.exec from lastIndex on: the leftmost match, or to = 0
RECURSIVE Exec(_, _)
Exec(text, lastIndex) ==
    IF lastIndex > Len(text) THEN [from |-> 0, to |-> 0]
    ELSE IF MatchAt(text, lastIndex).to # 0 THEN MatchAt(text, lastIndex)
    ELSE Exec(text, lastIndex + 1)

\* the loop of extractDependencies from lastIndex on, deps being the array so far
RECURSIVE ExecLoop(_, _, _)
ExecLoop(text, lastIndex, deps) ==
    LET match == Exec(text, lastIndex)
    IN  IF match.to = 0 THEN deps
        ELSE ExecLoop(text, match.to, Append(deps, SubSeq(text, match.from, match.to - 1)))

\* the loop with a check added: a token that is in the array already is not
\* pushed again
RECURSIVE ExecLoopOnce(_, _, _)
ExecLoopOnce(text, lastIndex, deps) ==
    LET match == Exec(text, lastIndex)
        token == SubSeq(text, match.from, match.to - 1)
    IN  IF match.to = 0 THEN deps
        ELSE ExecLoopOnce(text, match.to,
                IF \E k \in 1..Len(deps) : deps[k] = token THEN deps ELSE Append(deps, token))

\* mutant: the dependencies are deduplicated
extractDependenciesOnce(analysis) == ExecLoopOnce(analysis, 1, <<>>)

extractDependencies(analysis) == ExecLoop(analysis, 1, <<>>)

\* the words of a pull request's title and body that consist of capital
\* letters ( [A-Z]+ )
UpperWords == { "PROJ" }

\* [...text.matchAll(/([A-Z]+-\d+)/g)].map(match => match[1]), from position i on
RECURSIVE MatchAllKeys(_, _)
MatchAllKeys(text, i) ==
    IF i > Len(text) THEN <<>>
    ELSE IF At(text, i) \in UpperWords /\ At(text, i + 1) = "-"
                /\ At(text, i + 2) \in DigitWords
    THEN <<SubSeq(text, i, i + 2)>> \o MatchAllKeys(text, i + 3)
    ELSE MatchAllKeys(text, i + 1)

\* [...new Set(a)]: the first occurrence of each element, in order
RECURSIVE Distinct(_)
Distinct(a) ==
    IF a = <<>> THEN <<>>
    ELSE LET d == Distinct(SubSeq(a, 1, Len(a) - 1))
         IN  IF \E k \in 1..Len(d) : d[k] = a[Len(a)] THEN d ELSE Append(d, a[Len(a)])

\* mutant: the matches are not passed through a Set
extractJiraContextKeepsRepeats(title, body) ==
    LET tickets == MatchAllKeys(title \o <<" ">> \o body, 1)
    IN  IF Len(tickets) > 0 THEN Defined(tickets) ELSE Undefined

\* { tickets }, or null when no key is found
extractJiraContext(title, body) ==
    LET tickets == Distinct(MatchAllKeys(title \o <<" ">> \o body, 1))
    IN  IF Len(tickets) > 0 THEN Defined(tickets) ELSE Undefined

\* jiraContext?.tickets || []
TicketsOr(jiraContext) == IF jiraContext.defined THEN jiraContext.v ELSE <<>>

----------------------------------------------------------------------------
(* The store and the services objects *)

EmptyServices == [q \in {} |-> [status |-> ""]]

PRUrl(owner, repo, n) ==
    <<"https:", "/", "/", "github.com", "/">> \o owner \o <<"/">> \o repo
        \o <<"/", "pull", "/">> \o NumStr(n)

\* references held by the store and by the calls in progress
UsedRefs ==
    { workflowState[i].services : i \in DOMAIN workflowState }
        \cup { proc[p].updated.services : p \in { q \in Procs : proc[q].op = "syncWorkflowStatus" /\ proc[q].found } }

\* a reference no live object has
FreshRef ==
    CHOOSE r \in 1..(Cardinality(UsedRefs) + 1) :
        r \notin UsedRefs /\ \A q \in 1..(r - 1) : q \in UsedRefs

\* contents of the services object of the record stored under id
ServicesOf(id) == heap[workflowState[id].services]

----------------------------------------------------------------------------
(* Calls *)

NoRecord == [id |-> <<>>, type |-> "", status |-> "", services |-> 0]
NoResult == [readiness |-> 0, recommendation |-> ""]

IdleProc ==
    [ op |-> "none", pc |-> "idle", params |-> [none |-> TRUE],
      wid |-> <<>>, prior |-> "",
      pending |-> {}, chan |-> <<>>, score |-> -1,
      found |-> FALSE, updated |-> NoRecord, before |-> EmptyServices,
      list |-> <<>>, idx |-> 0, push |-> "none",
      attempted |-> <<>>, settled |-> <<>>,
      log |-> <<>>, puts |-> <<>>,
      outcome |-> "none", error |-> NoError, result |-> NoResult ]

\* an adapter call as issued; res is filled in when it settles
Entry(call, target, detail) ==
    [call |-> call, target |-> target, detail |-> detail, res |-> "pending"]

\* the pending call named call settles with res
Settle(log, call, res) ==
    [i \in 1..Len(log) |->
        IF log[i].call = call /\ log[i].res = "pending"
        THEN [log[i] EXCEPT !.res = res] ELSE log[i]]

Issue(pr, pc, entry) == [pr EXCEPT !.pc = pc, !.log = Append(@, entry)]

Resolved(pr, result) ==
    [pr EXCEPT !.pc = "done", !.outcome = "resolved", !.result = result]
Rejected(pr, err) ==
    [pr EXCEPT !.pc = "done", !.outcome = "rejected", !.error = err]

Init ==
    /\ workflowState = [i \in {} |-> NoRecord]
    /\ heap = [r \in {} |-> EmptyServices]
    /\ proc = [p \in Callers |-> IdleProc]
    /\ created = {}
    /\ focus \in WorkflowIds
    /\ agent = AgentIdle

CanStart(p) == proc[p].pc = "idle"

\* mutant: a put with an empty services map keeps the services stored
updateWorkflowStatusKeepsServices(p, id, type, status, services, pr) ==
    LET ref == FreshRef
        rec == [id |-> id, type |-> type, status |-> status, services |-> ref]
        put == [id |-> id, type |-> type, status |-> status, services |-> services]
        kept == IF services = EmptyServices /\ id \in DOMAIN workflowState
                THEN heap[workflowState[id].services] ELSE services
    IN  /\ workflowState' =
            [i \in DOMAIN workflowState \cup {id} |->
                IF i = id THEN rec ELSE workflowState[i]]
        /\ proc' = [proc EXCEPT ![p] = [pr EXCEPT !.puts = Append(@, put)]]
        /\ heap' = [r \in UsedRefs' |-> IF r = ref THEN kept ELSE heap[r]]
        /\ created' = created \cup {id}
        /\ UNCHANGED <<focus, agent>>

\* this.updateWorkflowStatus(id, {id, type, status, services}) with a new
\* services object literal, after which the call continues as pr; prior
\* keeps what the call's first put replaced: no record ("none"), a record
\* with status completed or failed ("final"), or another record ("open")
updateWorkflowStatus(p, id, type, status, services, pr) ==
    LET ref == FreshRef
        rec == [id |-> id, type |-> type, status |-> status, services |-> ref]
        put == [id |-> id, type |-> type, status |-> status, services |-> services]
        prior == IF pr.puts # <<>> THEN pr.prior
                 ELSE IF id \notin DOMAIN workflowState THEN "none"
                 ELSE IF workflowState[id].status \in {"completed", "failed"} THEN "final"
                 ELSE "open"
    IN  /\ workflowState' =
            [i \in DOMAIN workflowState \cup {id} |->
                IF i = id THEN rec ELSE workflowState[i]]
        /\ proc' = [proc EXCEPT ![p] =
                [pr EXCEPT !.puts = Append(@, put), !.prior = prior]]
        /\ heap' = [r \in UsedRefs' |-> IF r = ref THEN services ELSE heap[r]]
        /\ created' = created \cup {id}
        /\ UNCHANGED <<focus, agent>>

\* a stretch of a handler that does not touch the store
NoStore(p, pr) ==
    /\ proc' = [proc EXCEPT ![p] = pr]
    /\ workflowState' = workflowState
    /\ heap' = [r \in UsedRefs' |-> heap[r]]
    /\ created' = created
    /\ UNCHANGED <<focus, agent>>

\* mutant: the catch block rethrows without writing a record
CatchFailedNoRecord(p, type, pr, err) == NoStore(p, Rejected(pr, err))

\* mutant: every catch block writes the record type of analyzePR's
CatchFailedAsPR(p, type, pr, err) ==
    updateWorkflowStatus(p, pr.wid, "pr", "failed", EmptyServices, Rejected(pr, err))

\* the catch block of analyzePR, smartTriage and orchestrateRelease
CatchFailed(p, type, pr, err) ==
    updateWorkflowStatus(p, pr.wid, type, "failed", EmptyServices, Rejected(pr, err))

----------------------------------------------------------------------------
(* analyzePR *)

\* mutant: the detail read and the roster read are started together
StartAnalyzePRParallel(p) ==
    /\ CanStart(p)
    /\ \E o \in Owners, r \in Repos, n \in PullNumbers :
        LET id == PRWorkflowId(o, r, n)
            pr == [IdleProc EXCEPT !.op = "analyzePR", !.wid = id,
                      !.params = [owner |-> o, repo |-> r, pull_number |-> n]]
        IN  updateWorkflowStatus(p, id, "pr", "analyzing", EmptyServices,
                [pr EXCEPT !.pc = "pr_details",
                    !.log = << Entry("getPRDetails", o \o <<"/">> \o r, ""),
                               Entry("getRepositoryStats", o \o <<"/">> \o r, "") >>])

StartAnalyzePR(p) ==
    /\ CanStart(p)
    /\ \E o \in Owners, r \in Repos, n \in PullNumbers :
        LET id == PRWorkflowId(o, r, n)
            pr == [IdleProc EXCEPT !.op = "analyzePR", !.wid = id,
                      !.params = [owner |-> o, repo |-> r, pull_number |-> n]]
        IN  updateWorkflowStatus(p, id, "pr", "analyzing", EmptyServices,
                Issue(pr, "pr_details", Entry("getPRDetails", o \o <<"/">> \o r, "")))

\* the detail read resolves; extractJiraContext has no adapter call behind
\* its await, so the roster read is issued in the same stretch
PRDetailsResolved(p) ==
    /\ proc[p].pc = "pr_details"
    /\ LET pr == [proc[p] EXCEPT !.log = Settle(@, "getPRDetails", "ok")]
           a == pr.params
       IN  NoStore(p, Issue(pr, "pr_roster",
                Entry("getRepositoryStats", a.owner \o <<"/">> \o a.repo, "")))

\* mutant: a rejected detail read is swallowed and the call goes on
PRDetailsRejectedContinues(p) ==
    /\ proc[p].pc = "pr_details"
    /\ LET pr == [proc[p] EXCEPT !.log = Settle(@, "getPRDetails", "rejected")]
           a == pr.params
       IN  NoStore(p, Issue(pr, "pr_roster",
                Entry("getRepositoryStats", a.owner \o <<"/">> \o a.repo, "")))

PRDetailsRejected(p) ==
    /\ proc[p].pc = "pr_details"
    /\ LET pr == [proc[p] EXCEPT !.log = Settle(@, "getPRDetails", "rejected")]
       IN  CatchFailed(p, "pr", pr, AdapterError("getPRDetails"))

\* mutant: a rejected roster read is not caught
PRRosterSettledAborts(p) ==
    /\ proc[p].pc = "pr_roster"
    /\ \E res \in {"ok", "rejected"} :
        LET pr == [proc[p] EXCEPT !.log = Settle(@, "getRepositoryStats", res)]
        IN  IF res = "rejected"
            THEN CatchFailed(p, "pr", pr, AdapterError("getRepositoryStats"))
            ELSE NoStore(p, Issue(pr, "pr_ai", Entry("analyzePullRequest", <<>>, "roster")))

\* getTeamMembers catches a rejected roster read and returns []
PRRosterSettled(p) ==
    /\ proc[p].pc = "pr_roster"
    /\ \E res \in {"ok", "rejected"} :
        LET pr == [proc[p] EXCEPT !.log = Settle(@, "getRepositoryStats", res)]
        IN  NoStore(p, Issue(pr, "pr_ai", Entry("analyzePullRequest", <<>>,
                IF res = "ok" THEN "roster" ELSE "no roster")))

PRAnalysisResolved(p) ==
    /\ proc[p].pc = "pr_ai"
    /\ LET pr == [proc[p] EXCEPT !.log = Settle(@, "analyzePullRequest", "ok")]
           a == pr.params
           services == "github" :>
               [status |-> "analyzed", url |-> PRUrl(a.owner, a.repo, a.pull_number)]
       IN  updateWorkflowStatus(p, pr.wid, "pr", "completed", services,
                Resolved(pr, NoResult))

PRAnalysisRejected(p) ==
    /\ proc[p].pc = "pr_ai"
    /\ LET pr == [proc[p] EXCEPT !.log = Settle(@, "analyzePullRequest", "rejected")]
       IN  CatchFailed(p, "pr", pr, AdapterError("analyzePullRequest"))

----------------------------------------------------------------------------
(* smartTriage *)

\* mutant: the first record of a triage has status analyzing
StartSmartTriageAnalyzing(p) ==
    /\ CanStart(p)
    /\ \E k \in IssueKeys, u \in GithubIssueUrls :
        LET id == TriageWorkflowId(k)
            pr == [IdleProc EXCEPT !.op = "smartTriage", !.wid = id,
                      !.params = [issue_key |-> k, github_issue_url |-> u]]
        IN  updateWorkflowStatus(p, id, "issue", "analyzing", EmptyServices,
                Issue(pr, "tr_issue", Entry("getIssue", k, "")))

StartSmartTriage(p) ==
    /\ CanStart(p)
    /\ \E k \in IssueKeys, u \in GithubIssueUrls :
        LET id == TriageWorkflowId(k)
            pr == [IdleProc EXCEPT !.op = "smartTriage", !.wid = id,
                      !.params = [issue_key |-> k, github_issue_url |-> u]]
        IN  updateWorkflowStatus(p, id, "issue", "triaging", EmptyServices,
                Issue(pr, "tr_issue", Entry("getIssue", k, "")))

\* extractGitHubIssueContext up to its suspension: the issue it asks for,
\* or "throw" when the URL does not parse (caught there, result null)
GitHubIssueOf(url) ==
    LET urlParts == Split(url, "/")
        n == Len(urlParts)
    IN  IF Falsy(urlParts, n) \/ Falsy(urlParts, n - 4) \/ Falsy(urlParts, n - 3)
        THEN [kind |-> "throw"]
        ELSE [kind |-> "call",
              entry |-> Entry("getIssueDetails",
                  urlParts[n - 4] \o <<"/">> \o urlParts[n - 3] \o <<"#">> \o urlParts[n], "")]

\* findSimilarIssues up to its suspension
IssueSimilar(pr) == Issue(pr, "tr_similar", Entry("searchIssues", <<>>, "similar"))

TriageIssueResolved(p) ==
    /\ proc[p].pc = "tr_issue"
    /\ LET pr == [proc[p] EXCEPT !.log = Settle(@, "getIssue", "ok")]
           url == pr.params.github_issue_url
       IN  IF url # <<>> /\ GitHubIssueOf(url).kind = "call"
           THEN NoStore(p, Issue(pr, "tr_ghctx", GitHubIssueOf(url).entry))
           ELSE NoStore(p, IssueSimilar(pr))

TriageIssueRejected(p) ==
    /\ proc[p].pc = "tr_issue"
    /\ LET pr == [proc[p] EXCEPT !.log = Settle(@, "getIssue", "rejected")]
       IN  CatchFailed(p, "issue", pr, AdapterError("getIssue"))

\* extractGitHubIssueContext catches a rejected lookup and returns null
TriageContextSettled(p) ==
    /\ proc[p].pc = "tr_ghctx"
    /\ \E res \in {"ok", "rejected"} :
        LET pr == [proc[p] EXCEPT !.log = Settle(@, "getIssueDetails", res)]
        IN  NoStore(p, IssueSimilar(pr))

\* mutant: a rejected similar-issue search is not caught
TriageSimilarSettledAborts(p) ==
    /\ proc[p].pc = "tr_similar"
    /\ \E res \in {"ok", "rejected"} :
        LET pr == [proc[p] EXCEPT !.log = Settle(@, "searchIssues", res)]
        IN  IF res = "rejected"
            THEN CatchFailed(p, "issue", pr, AdapterError("searchIssues"))
            ELSE NoStore(p, Issue(pr, "tr_ai", Entry("triageIssue", pr.params.issue_key,
                    "similarIssues")))

\* findSimilarIssues catches a rejected search and returns []
TriageSimilarSettled(p) ==
    /\ proc[p].pc = "tr_similar"
    /\ \E res \in {"ok", "rejected"} :
        LET pr == [proc[p] EXCEPT !.log = Settle(@, "searchIssues", res)]
        IN  NoStore(p, Issue(pr, "tr_ai", Entry("triageIssue", pr.params.issue_key,
                IF res = "ok" THEN "similarIssues" ELSE "similarIssues=[]")))

\* the result object is built, which awaits getSuggestedSprint
TriageAnalysisResolved(p) ==
    /\ proc[p].pc = "tr_ai"
    /\ LET pr == [proc[p] EXCEPT !.log = Settle(@, "triageIssue", "ok")]
       IN  NoStore(p, Issue(pr, "tr_sprint", Entry("getIssue", pr.params.issue_key, "sprint")))

TriageAnalysisRejected(p) ==
    /\ proc[p].pc = "tr_ai"
    /\ LET pr == [proc[p] EXCEPT !.log = Settle(@, "triageIssue", "rejected")]
       IN  CatchFailed(p, "issue", pr, AdapterError("triageIssue"))

\* mutant: a rejected sprint read is tried again
TriageSprintSettledRetries(p) ==
    /\ proc[p].pc = "tr_sprint"
    /\ \E res \in {"ok", "rejected"} :
        LET pr == [proc[p] EXCEPT !.log = Settle(@, "getIssue", res)]
        IN  IF res = "rejected"
            THEN NoStore(p, Issue(pr, "tr_sprint",
                    Entry("getIssue", pr.params.issue_key, "sprint")))
            ELSE NoStore(p, Issue(pr, "tr_comment",
                    Entry("addCommentToIssue", pr.params.issue_key, "triage analysis")))

\* getSuggestedSprint catches a rejected read and returns undefined
TriageSprintSettled(p) ==
    /\ proc[p].pc = "tr_sprint"
    /\ \E res \in {"ok", "rejected"} :
        LET pr == [proc[p] EXCEPT !.log = Settle(@, "getIssue", res)]
        IN  NoStore(p, Issue(pr, "tr_comment",
                Entry("addCommentToIssue", pr.params.issue_key, "triage analysis")))

TriageCommentResolved(p) ==
    /\ proc[p].pc = "tr_comment"
    /\ LET pr == [proc[p] EXCEPT !.log = Settle(@, "addCommentToIssue", "ok")]
           services == "jira" :> [status |-> "triaged", key |-> pr.params.issue_key]
       IN  updateWorkflowStatus(p, pr.wid, "issue", "completed", services,
                Resolved(pr, NoResult))

TriageCommentRejected(p) ==
    /\ proc[p].pc = "tr_comment"
    /\ LET pr == [proc[p] EXCEPT !.log = Settle(@, "addCommentToIssue", "rejected")]
       IN  CatchFailed(p, "issue", pr, AdapterError("addCommentToIssue"))

----------------------------------------------------------------------------
(* orchestrateRelease *)

DefaultReadiness == 70
ProceedThreshold == 85
CautionThreshold == 70

\* aiAnalysis.structuredData?.readinessScore || 70
ReadinessOf(score) == IF score = 0 THEN DefaultReadiness ELSE score

determineReleaseRecommendation(readinessScore) ==
    IF readinessScore >= ProceedThreshold THEN "proceed"
    ELSE IF readinessScore >= CautionThreshold THEN "caution"
    ELSE "block"

\* mutant: caution is coloured like block
NotificationColorNoWarning(recommendation) ==
    IF recommendation = "proceed" THEN "good" ELSE "danger"

NotificationColor(recommendation) ==
    IF recommendation = "proceed" THEN "good"
    ELSE IF recommendation = "caution" THEN "warning"
    ELSE "danger"

\* mutant: only the number of parts is looked at
BadRepositoryCountsParts(repository) == Len(Split(repository, "/")) < 2

\* params.repository.split('/') does not give an owner and a repo
BadRepository(repository) ==
    LET repoParts == Split(repository, "/")
    IN  Falsy(repoParts, 1) \/ Falsy(repoParts, 2)

RepoOf(repository) ==
    LET repoParts == Split(repository, "/")
    IN  repoParts[1] \o <<"/">> \o repoParts[2]

StartOrchestrateRelease(p) ==
    /\ CanStart(p)
    /\ \E v \in Versions, rp \in Repositories, j \in JiraProjects,
          c \in ChannelNames, d \in BOOLEAN :
        LET id == ReleaseWorkflowId(v)
            pr == [IdleProc EXCEPT !.op = "orchestrateRelease", !.wid = id,
                      !.params = [release_version |-> v, repository |-> rp,
                                  jira_project |-> j, slack_channel |-> c, dry_run |-> d]]
        IN  IF BadRepository(rp)
            THEN NoStore(p, Rejected(pr, FormatError))
            ELSE updateWorkflowStatus(p, id, "release", "analyzing", EmptyServices,
                    [pr EXCEPT !.pc = "rel_reads",
                        !.pending = {"getRepositoryStats", "getProjectIssueStats",
                                     "findChannelByName"},
                        !.log = << Entry("getRepositoryStats", RepoOf(rp), ""),
                                   Entry("getProjectIssueStats", j, ""),
                                   Entry("findChannelByName", c, "") >>])

\* mutant: the channel check is missing
ChannelMissingNever(chan) == FALSE

\* !slackChannel
ChannelMissing(chan) == chan = <<>>

\* one of the three reads of the Promise.all resolves; when it is the last
\* one the handler continues: channel check, then getBlockingIssues
ReleaseReadResolved(p) ==
    /\ proc[p].pc = "rel_reads"
    /\ \E call \in proc[p].pending :
       \E chan \in IF call = "findChannelByName" THEN ChannelIds \cup {<<>>} ELSE {<<>>} :
        LET res == IF call = "findChannelByName" /\ chan = <<>> THEN "null" ELSE "ok"
            pr == [proc[p] EXCEPT !.log = Settle(@, call, res),
                                  !.pending = @ \ {call},
                                  !.chan = IF call = "findChannelByName" THEN chan ELSE @]
        IN  IF pr.pending # {}
            THEN NoStore(p, pr)
            ELSE IF ChannelMissing(pr.chan)
            THEN CatchFailed(p, "release", pr, ChannelNotFoundError(pr.params.slack_channel))
            ELSE NoStore(p, Issue(pr, "rel_blocking",
                    Entry("searchIssues", pr.params.jira_project, "blocking")))

\* mutant: a rejected read counts as a read that resolved
ReleaseReadRejectedIgnored(p) ==
    /\ proc[p].pc = "rel_reads"
    /\ \E call \in proc[p].pending :
        LET pr == [proc[p] EXCEPT !.log = Settle(@, call, "rejected"),
                                  !.pending = @ \ {call},
                                  !.chan = IF call = "findChannelByName" THEN <<"C1">> ELSE @]
        IN  IF pr.pending # {}
            THEN NoStore(p, pr)
            ELSE NoStore(p, Issue(pr, "rel_blocking",
                    Entry("searchIssues", pr.params.jira_project, "blocking")))

\* the first rejection rejects the Promise.all; the other reads stay in flight
ReleaseReadRejected(p) ==
    /\ proc[p].pc = "rel_reads"
    /\ \E call \in proc[p].pending :
        LET pr == [proc[p] EXCEPT !.log = Settle(@, call, "rejected")]
        IN  CatchFailed(p, "release", pr, AdapterError(call))

\* getBlockingIssues catches a rejected search and returns []; getTestResults
\* and getDeploymentHistory are stubs that call no adapter
ReleaseBlockingSettled(p) ==
    /\ proc[p].pc = "rel_blocking"
    /\ \E res \in {"ok", "rejected"} :
        LET pr == [proc[p] EXCEPT !.log = Settle(@, "searchIssues", res)]
        IN  NoStore(p, Issue(pr, "rel_ai",
                Entry("assessReleaseReadiness", pr.params.release_version, "")))

\* executeRelease up to its suspension
ExecuteRelease(pr) ==
    IF BadRepository(pr.params.repository)
    THEN [kind |-> "throw"]
    ELSE [kind |-> "call",
          entry |-> Entry("createRelease", RepoOf(pr.params.repository),
                      IF pr.result.recommendation # "proceed" THEN "draft" ELSE "published")]

\* mutant: dry_run is not looked at
ShouldReleaseIgnoresDryRun(params, result) == result.recommendation = "proceed"

\* !params.dry_run && result.recommendation === 'proceed'
ShouldRelease(params, result) ==
    ~params.dry_run /\ result.recommendation = "proceed"

IssueNotification(pr) ==
    Issue(pr, "rel_notify",
        Entry("sendNotification", pr.chan, NotificationColor(pr.result.recommendation)))

ReleaseAnalysisResolved(p) ==
    /\ proc[p].pc = "rel_ai"
    /\ \E score \in Scores :
        LET result == [readiness |-> ReadinessOf(score),
                       recommendation |-> determineReleaseRecommendation(ReadinessOf(score))]
            pr == [proc[p] EXCEPT !.log = Settle(@, "assessReleaseReadiness", "ok"),
                                  !.score = score, !.result = result]
        IN  IF ShouldRelease(pr.params, result)
            THEN IF ExecuteRelease(pr).kind = "call"
                 THEN NoStore(p, Issue(pr, "rel_create", ExecuteRelease(pr).entry))
                 ELSE CatchFailed(p, "release", pr, FormatError)
            ELSE NoStore(p, IssueNotification(pr))

ReleaseAnalysisRejected(p) ==
    /\ proc[p].pc = "rel_ai"
    /\ LET pr == [proc[p] EXCEPT !.log = Settle(@, "assessReleaseReadiness", "rejected")]
       IN  CatchFailed(p, "release", pr, AdapterError("assessReleaseReadiness"))

ReleaseCreateResolved(p) ==
    /\ proc[p].pc = "rel_create"
    /\ LET pr == [proc[p] EXCEPT !.log = Settle(@, "createRelease", "ok")]
       IN  NoStore(p, IssueNotification(pr))

ReleaseCreateRejected(p) ==
    /\ proc[p].pc = "rel_create"
    /\ LET pr == [proc[p] EXCEPT !.log = Settle(@, "createRelease", "rejected")]
       IN  CatchFailed(p, "release", pr, AdapterError("createRelease"))

ReleaseNotifyResolved(p) ==
    /\ proc[p].pc = "rel_notify"
    /\ LET pr == [proc[p] EXCEPT !.log = Settle(@, "sendNotification", "ok")]
           a == pr.params
           services ==
               ("github" :> [status |-> "analyzed",
                             url |-> <<"https:", "/", "/", "github.com", "/">> \o a.repository])
               @@ ("jira" :> [status |-> "analyzed", key |-> a.jira_project])
               @@ ("slack" :> [channel |-> pr.chan, messageId |-> <<"notification-sent">>])
       IN  updateWorkflowStatus(p, pr.wid, "release", "completed", services,
                [pr EXCEPT !.pc = "done", !.outcome = "resolved"])

ReleaseNotifyRejected(p) ==
    /\ proc[p].pc = "rel_notify"
    /\ LET pr == [proc[p] EXCEPT !.log = Settle(@, "sendNotification", "rejected")]
       IN  CatchFailed(p, "release", pr, AdapterError("sendNotification"))

----------------------------------------------------------------------------
(* getTeamInsights: gatherTeamData is a stub, the store is not touched *)

StartTeamInsights(p) ==
    /\ CanStart(p)
    /\ \E t \in TeamNames :
        LET pr == [IdleProc EXCEPT !.op = "getTeamInsights", !.params = [team_name |-> t]]
        IN  NoStore(p, Issue(pr, "ti_ai", Entry("generateTeamInsights", t, "")))

\* mutant: the insights call records a workflow
TeamInsightsResolvedRecords(p) ==
    /\ proc[p].pc = "ti_ai"
    /\ LET pr == [proc[p] EXCEPT !.log = Settle(@, "generateTeamInsights", "ok")]
       IN  updateWorkflowStatus(p, <<"insights", "-">> \o pr.params.team_name, "team",
                "completed", EmptyServices, Resolved(pr, NoResult))

TeamInsightsResolved(p) ==
    /\ proc[p].pc = "ti_ai"
    /\ LET pr == [proc[p] EXCEPT !.log = Settle(@, "generateTeamInsights", "ok")]
       IN  NoStore(p, Resolved(pr, NoResult))

TeamInsightsRejected(p) ==
    /\ proc[p].pc = "ti_ai"
    /\ LET pr == [proc[p] EXCEPT !.log = Settle(@, "generateTeamInsights", "rejected")]
       IN  NoStore(p, Rejected(pr, AdapterError("generateTeamInsights")))

----------------------------------------------------------------------------
(* syncWorkflowStatus *)

\* statusUpdate.toLowerCase().includes('failed') on the status labels used
MentionsFailed(s) == s \in {"deploy failed", "failed"}

\* mutant: the comment is posted whether or not the record holds a key
PushOfJiraUnguarded(platform, services, statusUpdate) ==
    LET has(f) == platform \in DOMAIN services /\ f \in DOMAIN services[platform]
                    /\ services[platform][f] # <<>>
    IN  CASE platform = "github" ->
                IF has("url")
                THEN LET urlParts == Split(services.github.url, "/")
                         n == Len(urlParts)
                     IN  IF \E i \in 1..n : urlParts[i] = <<"pull">>
                         THEN IF Falsy(urlParts, n) \/ Falsy(urlParts, n - 4)
                                    \/ Falsy(urlParts, n - 3)
                              THEN [kind |-> "throw"]
                              ELSE [kind |-> "call",
                                    entry |-> Entry("updatePRStatus",
                                        urlParts[n - 4] \o <<"/">> \o urlParts[n - 3]
                                            \o <<"#">> \o urlParts[n], statusUpdate)]
                         ELSE [kind |-> "none"]
                ELSE [kind |-> "none"]
          [] platform = "jira" ->
                [kind |-> "call",
                 entry |-> Entry("addCommentToIssue",
                             IF has("key") THEN services.jira.key ELSE <<>>, statusUpdate)]
          [] platform = "slack" ->
                IF has("channel")
                THEN [kind |-> "call",
                      entry |-> Entry("sendNotification", services.slack.channel,
                                  IF MentionsFailed(statusUpdate) THEN "danger" ELSE "good")]
                ELSE [kind |-> "none"]

\* updateStatusOnPlatform up to its first suspension: the adapter call it
\* issues for the platform, "none" when it issues none, "throw" when it
\* throws before issuing one
PushOf(platform, services, statusUpdate) ==
    LET has(f) == platform \in DOMAIN services /\ f \in DOMAIN services[platform]
                    /\ services[platform][f] # <<>>
    IN  CASE platform = "github" ->
                IF has("url")
                THEN LET urlParts == Split(services.github.url, "/")
                         n == Len(urlParts)
                     IN  IF \E i \in 1..n : urlParts[i] = <<"pull">>
                         THEN IF Falsy(urlParts, n) \/ Falsy(urlParts, n - 4)
                                    \/ Falsy(urlParts, n - 3)
                              THEN [kind |-> "throw"]
                              ELSE [kind |-> "call",
                                    entry |-> Entry("updatePRStatus",
                                        urlParts[n - 4] \o <<"/">> \o urlParts[n - 3]
                                            \o <<"#">> \o urlParts[n], statusUpdate)]
                         ELSE [kind |-> "none"]
                ELSE [kind |-> "none"]
          [] platform = "jira" ->
                IF has("key")
                THEN [kind |-> "call",
                      entry |-> Entry("addCommentToIssue", services.jira.key, statusUpdate)]
                ELSE [kind |-> "none"]
          [] platform = "slack" ->
                IF has("channel")
                THEN [kind |-> "call",
                      entry |-> Entry("sendNotification", services.slack.channel,
                                  IF MentionsFailed(statusUpdate) THEN "danger" ELSE "good")]
                ELSE [kind |-> "none"]

\* loop iteration i of syncWorkflowStatus up to the await; services is the
\* content of updatedStatus.services at that moment
IssuePush(pr, i, services) ==
    LET push == PushOf(pr.list[i], services, pr.updated.status)
        pr1 == [pr EXCEPT !.pc = "sync_wait", !.idx = i, !.push = push.kind,
                          !.attempted = Append(@, pr.list[i])]
    IN  IF push.kind = "call"
        THEN [pr1 EXCEPT !.log = Append(@, push.entry)]
        ELSE pr1

\* mutant: the record is stored with the status it had
FinishSyncKeepsStatus(p, pr, services) ==
    LET ref == pr.updated.services
        kept == [pr.updated EXCEPT !.status = workflowState[pr.wid].status]
        put == [id |-> kept.id, type |-> kept.type,
                status |-> kept.status, services |-> services]
    IN  /\ workflowState' =
                [i \in DOMAIN workflowState \cup {pr.wid} |->
                    IF i = pr.wid THEN kept ELSE workflowState[i]]
        /\ proc' = [proc EXCEPT ![p] =
                [pr EXCEPT !.pc = "done", !.outcome = "resolved",
                           !.puts = Append(@, put)]]
        /\ heap' = [r \in UsedRefs' |-> IF r = ref THEN services ELSE heap[r]]
        /\ created' = created
        /\ UNCHANGED <<focus, agent>>

\* this.workflowState.set(workflow_id, updatedStatus); return updatedStatus
\* services is the content of updatedStatus.services at that moment
FinishSync(p, pr, services) ==
    LET ref == pr.updated.services
        put == [id |-> pr.updated.id, type |-> pr.updated.type,
                status |-> pr.updated.status, services |-> services]
    IN  /\ workflowState' =
                [i \in DOMAIN workflowState \cup {pr.wid} |->
                    IF i = pr.wid THEN pr.updated ELSE workflowState[i]]
        /\ proc' = [proc EXCEPT ![p] =
                [pr EXCEPT !.pc = "done", !.outcome = "resolved",
                           !.puts = Append(@, put)]]
        /\ heap' = [r \in UsedRefs' |-> IF r = ref THEN services ELSE heap[r]]
        /\ created' = created
        /\ UNCHANGED <<focus, agent>>

\* mutant: the record is written before the lookup result is checked
SyncNotFoundWrites(p, pr) ==
    /\ workflowState' =
            [i \in DOMAIN workflowState \cup {pr.wid} |->
                IF i = pr.wid
                THEN [id |-> pr.wid, type |-> "", status |-> pr.params.status_update,
                      services |-> FreshRef]
                ELSE workflowState[i]]
    /\ proc' = [proc EXCEPT ![p] = Rejected(pr, NotFoundError(pr.wid))]
    /\ heap' = [r \in UsedRefs' |-> IF r = FreshRef THEN EmptyServices ELSE heap[r]]
    /\ created' = created
    /\ UNCHANGED <<focus, agent>>

\* no record under workflow_id: throw, logged and rethrown by the outer catch
SyncNotFound(p, pr) == NoStore(p, Rejected(pr, NotFoundError(pr.wid)))

StartSync(p) ==
    /\ CanStart(p)
    /\ \E id \in {focus, UnknownId}, s \in StatusUpdates, pl \in PlatformArgs :
        LET pr == [IdleProc EXCEPT !.op = "syncWorkflowStatus", !.wid = id,
                      !.params = [workflow_id |-> id, status_update |-> s, platforms |-> pl]]
        IN  IF id \notin DOMAIN workflowState
            THEN SyncNotFound(p, pr)
            ELSE LET list == IF pl.given THEN pl.list ELSE DefaultPlatforms
                     services == heap[workflowState[id].services]
                     pr1 == [pr EXCEPT !.found = TRUE, !.list = list, !.before = services,
                                !.updated = [workflowState[id] EXCEPT !.status = s]]
                 IN  IF list = <<>>
                     THEN FinishSync(p, pr1, services)
                     ELSE NoStore(p, IssuePush(pr1, 1, services))

\* the merge after a push that resolved:
\* services[platform] = { status: status_update, ...currentService }
MergeStatus(services, platform, statusUpdate) ==
    [q \in DOMAIN services \cup {platform} |->
        IF q = platform
        THEN IF platform \in DOMAIN services
             THEN services[platform] @@ [status |-> statusUpdate]
             ELSE [status |-> statusUpdate]
        ELSE services[q]]

\* mutant: the record is stored after every push
AfterPushStoresEach(p, pr0, res) ==
    LET pr == [pr0 EXCEPT !.settled = Append(@, res)]
        ref == pr.updated.services
        services == IF res = "ok"
                    THEN MergeStatus(heap[ref], pr.list[pr.idx], pr.updated.status)
                    ELSE heap[ref]
        put == [id |-> pr.updated.id, type |-> pr.updated.type,
                status |-> pr.updated.status, services |-> services]
    IN  IF pr.idx < Len(pr.list)
        THEN /\ proc' = [proc EXCEPT ![p] =
                    IssuePush([pr EXCEPT !.puts = Append(@, put)], pr.idx + 1, services)]
             /\ workflowState' = [workflowState EXCEPT ![pr.wid] = pr.updated]
             /\ heap' = [r \in UsedRefs' |-> IF r = ref THEN services ELSE heap[r]]
             /\ created' = created
             /\ UNCHANGED <<focus, agent>>
        ELSE FinishSync(p, pr, services)

\* mutant: the merge is done after a push that rejected as well
AfterPushAlwaysMerges(p, pr0, res) ==
    LET pr == [pr0 EXCEPT !.settled = Append(@, res)]
        ref == pr.updated.services
        services == MergeStatus(heap[ref], pr.list[pr.idx], pr.updated.status)
    IN  IF pr.idx < Len(pr.list)
        THEN /\ proc' = [proc EXCEPT ![p] = IssuePush(pr, pr.idx + 1, services)]
             /\ workflowState' = workflowState
             /\ heap' = [r \in UsedRefs' |-> IF r = ref THEN services ELSE heap[r]]
             /\ created' = created
             /\ UNCHANGED <<focus, agent>>
        ELSE FinishSync(p, pr, services)

\* the rest of iteration idx once the push settled with res ("ok" or
\* "rejected"), then the loop's next iteration or the final set
AfterPush(p, pr0, res) ==
    LET pr == [pr0 EXCEPT !.settled = Append(@, res)]
        ref == pr.updated.services
        services == IF res = "ok"
                    THEN MergeStatus(heap[ref], pr.list[pr.idx], pr.updated.status)
                    ELSE heap[ref]
    IN  IF pr.idx < Len(pr.list)
        THEN /\ proc' = [proc EXCEPT ![p] = IssuePush(pr, pr.idx + 1, services)]
             /\ workflowState' = workflowState
             /\ heap' = [r \in UsedRefs' |-> IF r = ref THEN services ELSE heap[r]]
             /\ created' = created
             /\ UNCHANGED <<focus, agent>>
        ELSE FinishSync(p, pr, services)

PushResolved(p) ==
    /\ proc[p].pc = "sync_wait"
    /\ proc[p].push \in {"call", "none"}
    /\ LET call == proc[p].log[Len(proc[p].log)].call
           pr == IF proc[p].push = "call"
                 THEN [proc[p] EXCEPT !.log = Settle(@, call, "ok")]
                 ELSE proc[p]
       IN  AfterPush(p, pr, "ok")

\* mutant: a rejected push is not caught and ends the call
PushRejectedAborts(p) ==
    /\ proc[p].pc = "sync_wait"
    /\ proc[p].push \in {"call", "throw"}
    /\ LET call == proc[p].log[Len(proc[p].log)].call
           pr == IF proc[p].push = "call"
                 THEN [proc[p] EXCEPT !.log = Settle(@, call, "rejected"),
                                      !.settled = Append(@, "rejected")]
                 ELSE [proc[p] EXCEPT !.settled = Append(@, "rejected")]
       IN  NoStore(p, Rejected(pr, AdapterError(IF proc[p].push = "call" THEN call ELSE "updateStatusOnPlatform")))

PushRejected(p) ==
    /\ proc[p].pc = "sync_wait"
    /\ proc[p].push \in {"call", "throw"}
    /\ LET call == proc[p].log[Len(proc[p].log)].call
           pr == IF proc[p].push = "call"
                 THEN [proc[p] EXCEPT !.log = Settle(@, call, "rejected")]
                 ELSE proc[p]
       IN  AfterPush(p, pr, "rejected")

----------------------------------------------------------------------------
(* The caller takes the settled result; the call's frame is gone *)

Return(p) ==
    /\ proc[p].pc = "done"
    /\ NoStore(p, IdleProc)

----------------------------------------------------------------------------

Next ==
    \E p \in Procs :
        \/ StartAnalyzePR(p)
        \/ PRDetailsResolved(p)
        \/ PRDetailsRejected(p)
        \/ PRRosterSettled(p)
        \/ PRAnalysisResolved(p)
        \/ PRAnalysisRejected(p)
        \/ StartSmartTriage(p)
        \/ TriageIssueResolved(p)
        \/ TriageIssueRejected(p)
        \/ TriageContextSettled(p)
        \/ TriageSimilarSettled(p)
        \/ TriageAnalysisResolved(p)
        \/ TriageAnalysisRejected(p)
        \/ TriageSprintSettled(p)
        \/ TriageCommentResolved(p)
        \/ TriageCommentRejected(p)
        \/ StartOrchestrateRelease(p)
        \/ ReleaseReadResolved(p)
        \/ ReleaseReadRejected(p)
        \/ ReleaseBlockingSettled(p)
        \/ ReleaseAnalysisResolved(p)
        \/ ReleaseAnalysisRejected(p)
        \/ ReleaseCreateResolved(p)
        \/ ReleaseCreateRejected(p)
        \/ ReleaseNotifyResolved(p)
        \/ ReleaseNotifyRejected(p)
        \/ StartTeamInsights(p)
        \/ TeamInsightsResolved(p)
        \/ TeamInsightsRejected(p)
        \/ StartSync(p)
        \/ PushResolved(p)
        \/ PushRejected(p)
        \/ Return(p)

Spec == Init /\ [][Next]_vars

\* two callers work on one pull request: one analyses it, the other
\* synchronises its workflow, and their steps interleave at the adapter calls
RaceInit ==
    /\ workflowState = [i \in {} |-> NoRecord]
    /\ heap = [r \in {} |-> EmptyServices]
    /\ proc = [p \in RaceCallers |-> IdleProc]
    /\ created = {}
    /\ focus \in { PRWorkflowId(o, r, n) : o \in Owners, r \in Repos, n \in PullNumbers }
    /\ agent = AgentIdle

\* the caller that analyses and the caller that synchronises
Analyst == "other"
Syncer == "caller"

RaceNext ==
    \/ StartAnalyzePR(Analyst)
    \/ PRDetailsResolved(Analyst)
    \/ PRDetailsRejected(Analyst)
    \/ PRRosterSettled(Analyst)
    \/ PRAnalysisResolved(Analyst)
    \/ PRAnalysisRejected(Analyst)
    \/ StartSync(Syncer)
    \/ PushResolved(Syncer)
    \/ PushRejected(Syncer)
    \/ \E p \in Procs : Return(p)

RaceSpec == RaceInit /\ [][RaceNext]_vars

\* the LLM adapter on its own
AgentNext ==
    \/ AnalyzeContext
    \/ AgentReplied
    \/ AgentFailed
    \/ AgentReturn

AgentSpec == Init /\ [][AgentNext]_vars

\* the orchestrator holds no record and runs no call
Unused ==
    /\ workflowState = [i \in {} |-> NoRecord]
    /\ heap = [r \in {} |-> EmptyServices]
    /\ proc = [p \in Callers |-> IdleProc]
    /\ created = {}
    /\ focus = UnknownId

\* the velocity histories calculateVelocityTrend is called with
MaxHistory == 7
Samples == {0, 10, 15, 20}
Histories == UNION { [1..n -> Samples] : n \in 0..MaxHistory }

TrendInit ==
    /\ Unused
    /\ agent \in { [pc |-> "called", historical |-> h, trend |-> ""] : h \in Histories }

CalculateVelocityTrend ==
    /\ agent.pc = "called"
    /\ agent' = [agent EXCEPT !.pc = "returned",
                              !.trend = calculateVelocityTrend(agent.historical)]
    /\ UNCHANGED <<workflowState, heap, proc, created, focus>>

TrendNext == CalculateVelocityTrend

TrendSpec == TrendInit /\ [][TrendNext]_vars

\* the rosters and analysis texts extractReviewers is called with
MaxRoster == 4
Members == { <<"a", "l">>, <<"B", "o">>, <<"c">> }
Rosters ==
    { Undefined } \cup { Defined(r) : r \in UNION { [1..n -> Members] : n \in 0..MaxRoster } }
ReviewTexts ==
    { <<>>, <<"A", "L", " ", "b", "o">>, <<"x", "c", "x">>, <<"a", " ", "l">>,
      <<"A", "l", "B", "O", "c">>, <<"b", "o">> }

ReviewerInit ==
    /\ Unused
    /\ agent \in { [pc |-> "called", analysis |-> t, teamMembers |-> r, reviewers |-> <<>>] :
                        t \in ReviewTexts, r \in Rosters }

ExtractReviewers ==
    /\ agent.pc = "called"
    /\ agent' = [agent EXCEPT !.pc = "returned",
                              !.reviewers = extractReviewers(agent.analysis, agent.teamMembers)]
    /\ UNCHANGED <<workflowState, heap, proc, created, focus>>

ReviewerNext == ExtractReviewers

ReviewerSpec == ReviewerInit /\ [][ReviewerNext]_vars

\* the analysis texts the level extractors are called with: up to
\* MaxPhrases phrases, a space between two
MaxPhrases == 2
Phrases ==
    { <<"high", " ", "risk">>, <<"Critical">>, <<"medium", " ", "risk">>, <<"Moderate">>,
      <<"HIGH", " ", "PRIORITY">>, <<"Medium", " ", "priority">>,
      <<"high">>, <<"Risk">>, <<"fine">> }

RECURSIVE Join(_)
Join(phrases) ==
    IF phrases = <<>> THEN <<>>
    ELSE IF Len(phrases) = 1 THEN phrases[1]
    ELSE phrases[1] \o <<" ">> \o Join(Tail(phrases))

LevelTexts == { Join(ps) : ps \in UNION { [1..n -> Phrases] : n \in 0..MaxPhrases } }

LevelInit ==
    /\ Unused
    /\ agent \in { [pc |-> "called", fn |-> f, analysis |-> t, level |-> ""] :
                        f \in {"analyzePullRequest", "triageIssue"}, t \in LevelTexts }

\* riskLevel of analyzePullRequest's structuredData, as analyzePR returns it
RiskLevelOfPR ==
    /\ agent.pc = "called" /\ agent.fn = "analyzePullRequest"
    /\ agent' = [agent EXCEPT !.pc = "returned",
                              !.level = OrMedium(extractRiskLevel(agent.analysis))]
    /\ UNCHANGED <<workflowState, heap, proc, created, focus>>

\* priority of triageIssue's structuredData, as smartTriage returns it
PriorityOfIssue ==
    /\ agent.pc = "called" /\ agent.fn = "triageIssue"
    /\ agent' = [agent EXCEPT !.pc = "returned",
                              !.level = OrMedium(extractPriority(agent.analysis))]
    /\ UNCHANGED <<workflowState, heap, proc, created, focus>>

LevelNext ==
    \/ RiskLevelOfPR
    \/ PriorityOfIssue

LevelSpec == LevelInit /\ [][LevelNext]_vars

\* the texts of issue descriptions and of triage analyses: up to MaxClauses
\* clauses, a space between two
MaxClauses == 3
Clauses ==
    { <<"blocked", " ", "by", " ", "PROJ", "-", "55">>,
      <<"depends", " ", "on", " ", "PROJ", "-", "12">>,
      <<"and">>,
      <<"Requires", " ", " ", "#", "12">>,
      <<"block", " ", "by", " ", "PROJ", "-", "12">>,
      <<"see", " ", "proj", "-", "55">>,
      <<"DEPENDS", " ", "ON", " ", "user", "-", "v2">> }
DependencyTexts == { Join(cs) : cs \in UNION { [1..n -> Clauses] : n \in 0..MaxClauses } }

\* "blocked by PROJ-55 and depends on PROJ-12"
ExampleDescription ==
    <<"blocked", " ", "by", " ", "PROJ", "-", "55", " ", "and", " ",
      "depends", " ", "on", " ", "PROJ", "-", "12">>
Descriptions ==
    { ExampleDescription, <<>>, <<"see", " ", "proj", "-", "55">>,
      <<"Requires", " ", " ", "#", "12">> }

\* triageIssue has the reply of analyzeContext for an issue: the description
\* went into the prompt, the analysis is what the completion says
DependencyInit ==
    /\ Unused
    /\ agent \in { [pc |-> "called", description |-> d, analysis |-> t, dependencies |-> <<>>] :
                        d \in Descriptions, t \in DependencyTexts }

\* dependencies of triageIssue's structuredData, as smartTriage returns them
\* (an array is never replaced by the || [] of the call site)
DependenciesOfIssue ==
    /\ agent.pc = "called"
    /\ agent' = [agent EXCEPT !.pc = "returned",
                              !.dependencies = extractDependencies(agent.analysis)]
    /\ UNCHANGED <<workflowState, heap, proc, created, focus>>

DependencyNext == DependenciesOfIssue

DependencySpec == DependencyInit /\ [][DependencyNext]_vars

\* the titles and bodies of the pull requests getPRDetails resolves with
Titles ==
    { <<"fix">>, <<"PROJ", "-", "55", " ", "fix">>, <<"fix", " ", "PROJ">>,
      <<"PROJ", "-", "12", " ", "PROJ", "-", "55">> }
Bodies ==
    { <<>>, <<"-", "12", " ", "proj", "-", "12">>,
      <<"see", " ", "PROJ", "-", "12", " ", "and", " ", "PROJ", "-", "55">>,
      <<"PROJ", "-", "55", "-", "12">> }

\* analyzePR runs, and the computation of its result's relatedJiraTickets
\* from its arguments and the pull request is looked at on its own
TicketInit ==
    /\ Unused
    /\ agent \in { [pc |-> "called", include_jira_context |-> c, title |-> t, body |-> b,
                    relatedJiraTickets |-> <<>>] :
                        c \in BOOLEAN, t \in Titles, b \in Bodies }

\* jiraContext = include_jira_context ? await extractJiraContext(title, body) : null,
\* and relatedJiraTickets: jiraContext?.tickets || []
RelatedJiraTickets ==
    /\ agent.pc = "called"
    /\ LET jiraContext == IF agent.include_jira_context
                          THEN extractJiraContext(agent.title, agent.body)
                          ELSE Undefined
       IN  agent' = [agent EXCEPT !.pc = "returned",
                                  !.relatedJiraTickets = TicketsOr(jiraContext)]
    /\ UNCHANGED <<workflowState, heap, proc, created, focus>>

TicketNext ==
    \/ \E p \in Procs :
        \/ StartAnalyzePR(p)
        \/ PRDetailsResolved(p)
        \/ PRDetailsRejected(p)
        \/ PRRosterSettled(p)
        \/ PRAnalysisResolved(p)
        \/ PRAnalysisRejected(p)
        \/ Return(p)
    \/ RelatedJiraTickets

TicketSpec == TicketInit /\ [][TicketNext]_vars

\* the targets of two calls of one operation: owner and repository names
\* may hold hyphens, and a version may be released in several repositories
Targets(op) ==
    CASE op = "analyzePR" ->
            { <<o, r, n>> : o \in { <<"a">>, <<"a", "-", "b">> },
                            r \in { <<"c">>, <<"b", "-", "c">> }, n \in { 1, 2 } }
      [] op = "smartTriage" ->
            { <<k>> : k \in { <<"PROJ", "-", "1">>, <<"PROJ", "-", "2">> } }
      [] op = "orchestrateRelease" ->
            { <<v, r>> : v \in { <<"v1">>, <<"v2">> },
                         r \in { <<"o", "/", "r">>, <<"o", "/", "q">> } }

\* const workflowId = ... at the head of the three operations
WorkflowIdOf(op, args) ==
    CASE op = "analyzePR" -> PRWorkflowId(args[1], args[2], args[3])
      [] op = "smartTriage" -> TriageWorkflowId(args[1])
      [] op = "orchestrateRelease" -> ReleaseWorkflowId(args[1])

\* two calls of one operation, and the store keys they use, looked at on
\* their own
IdInit ==
    /\ Unused
    /\ agent \in UNION { { [pc |-> "called", op |-> op, first |-> a, second |-> b,
                              ids |-> <<>>] : a \in Targets(op), b \in Targets(op) } :
                            op \in { "analyzePR", "smartTriage", "orchestrateRelease" } }

WorkflowIdsOfCalls ==
    /\ agent.pc = "called"
    /\ agent' = [agent EXCEPT !.pc = "returned",
                              !.ids = <<WorkflowIdOf(agent.op, agent.first),
                                        WorkflowIdOf(agent.op, agent.second)>>]
    /\ UNCHANGED <<workflowState, heap, proc, created, focus>>

IdNext == WorkflowIdsOfCalls

IdSpec == IdInit /\ [][IdNext]_vars

\* an adapter call that an analysis of p awaits settles
AnalysisSettles(p) ==
    \/ PRDetailsResolved(p)
    \/ PRDetailsRejected(p)
    \/ PRRosterSettled(p)
    \/ PRAnalysisResolved(p)
    \/ PRAnalysisRejected(p)
    \/ TriageIssueResolved(p)
    \/ TriageIssueRejected(p)
    \/ TriageContextSettled(p)
    \/ TriageSimilarSettled(p)
    \/ TriageAnalysisResolved(p)
    \/ TriageAnalysisRejected(p)
    \/ TriageSprintSettled(p)
    \/ TriageCommentResolved(p)
    \/ TriageCommentRejected(p)
    \/ ReleaseReadResolved(p)
    \/ ReleaseReadRejected(p)
    \/ ReleaseBlockingSettled(p)
    \/ ReleaseAnalysisResolved(p)
    \/ ReleaseAnalysisRejected(p)
    \/ ReleaseCreateResolved(p)
    \/ ReleaseCreateRejected(p)
    \/ ReleaseNotifyResolved(p)
    \/ ReleaseNotifyRejected(p)

\* the three analyses alone
AnalysisNext ==
    \E p \in Procs :
        \/ StartAnalyzePR(p)
        \/ StartSmartTriage(p)
        \/ StartOrchestrateRelease(p)
        \/ AnalysisSettles(p)
        \/ Return(p)

\* every adapter call that is awaited settles in the end, and the event loop
\* then runs the continuation
LiveSpec ==
    Init /\ [][AnalysisNext]_vars /\ \A p \in Callers : WF_vars(AnalysisSettles(p))

\* one caller analyses the workflow in focus again and again while the other
\* synchronises it once; their steps interleave at the adapter calls
RerunInit ==
    /\ workflowState = [i \in {} |-> NoRecord]
    /\ heap = [r \in {} |-> EmptyServices]
    /\ proc = [p \in RaceCallers |-> IdleProc]
    /\ created = {}
    /\ focus \in WorkflowIds
    /\ agent = AgentIdle

RerunNext ==
    \/ StartAnalyzePR(Analyst) /\ proc'[Analyst].wid = focus
    \/ StartSmartTriage(Analyst) /\ proc'[Analyst].wid = focus
    \/ StartOrchestrateRelease(Analyst) /\ proc'[Analyst].wid = focus
    \/ AnalysisSettles(Analyst)
    \/ StartSync(Syncer)
    \/ PushResolved(Syncer)
    \/ PushRejected(Syncer)
    \/ Return(Analyst)

RerunSpec == RerunInit /\ [][RerunNext]_vars

----------------------------------------------------------------------------
(* Properties *)

Analyses == {"analyzePR", "smartTriage", "orchestrateRelease"}

\* the adapter calls named call that the call of p has issued
CallsOf(p, call) == { i \in 1..Len(proc[p].log) : proc[p].log[i].call = call }

\* a services entry, or a mark for none
Absent == [absent |-> TRUE]
EntryOf(services, q) == IF q \in DOMAIN services THEN services[q] ELSE Absent

Syncing(p) == proc[p].op = "syncWorkflowStatus" /\ proc[p].pc # "idle"
Releasing(p) == proc[p].op = "orchestrateRelease" /\ proc[p].pc # "idle"

\* C1: the store holds exactly the ids that analyzePR, smartTriage or
\* orchestrateRelease have written; syncWorkflowStatus rejects, and then with
\* the not-found error, exactly when its id is not among them; a sync that
\* rejects has issued no push and leaves the store and the services objects
\* as they were.
C1_SyncNotFoundIffNeverCreated ==
    /\ [](/\ DOMAIN workflowState = created
          /\ \A p \in Procs : Syncing(p) =>
                /\ (proc[p].outcome = "rejected") <=> (proc[p].wid \notin created)
                /\ proc[p].outcome = "rejected" =>
                      /\ proc[p].error = NotFoundError(proc[p].wid)
                      /\ proc[p].log = <<>> /\ proc[p].attempted = <<>>)
    /\ [][\A p \in Procs :
            (proc'[p].op = "syncWorkflowStatus" /\ proc'[p].outcome = "rejected"
                /\ proc[p].outcome # "rejected")
            => (workflowState' = workflowState /\ heap' = heap)]_vars

\* a sync of an unknown id has rejected while the store holds records
C1_Witness ==
    \E p \in Procs :
        /\ Syncing(p) /\ proc[p].outcome = "rejected"
        /\ proc[p].wid \notin DOMAIN workflowState
        /\ workflowState # <<>>

\* C2: a sync whose updatePRStatus push succeeded resolves and leaves
\* services.github.status equal to status_update.
C2_GithubStatusIsStatusUpdate ==
    \A p \in Procs :
        (/\ Syncing(p) /\ proc[p].pc = "done"
         /\ \E i \in CallsOf(p, "updatePRStatus") : proc[p].log[i].res = "ok")
        => /\ proc[p].outcome = "resolved"
           /\ "github" \in DOMAIN ServicesOf(proc[p].wid)
           /\ ServicesOf(proc[p].wid).github.status = proc[p].params.status_update

\* C3: a sync of an existing id attempts the push of every requested
\* platform in turn whatever pushes rejected, resolves, and the store then
\* holds the record it returns.
C3_RejectedPushDoesNotAbort ==
    \A p \in Procs :
        (Syncing(p) /\ proc[p].found) =>
            /\ proc[p].outcome # "rejected"
            /\ proc[p].pc = "sync_wait" =>
                    proc[p].attempted = SubSeq(proc[p].list, 1, proc[p].idx)
            /\ proc[p].pc = "done" =>
                    /\ proc[p].attempted = proc[p].list
                    /\ Len(proc[p].settled) = Len(proc[p].list)
                    /\ proc[p].outcome = "resolved"
                    /\ Len(proc[p].puts) = 1
                    /\ workflowState[proc[p].wid] = proc[p].updated

\* a sync has resolved although every one of its two or more pushes rejected
C3_Witness ==
    \E p \in Procs :
        /\ Syncing(p) /\ proc[p].pc = "done" /\ proc[p].outcome = "resolved"
        /\ Len(proc[p].list) >= 2
        /\ \A i \in 1..Len(proc[p].list) : proc[p].settled[i] = "rejected"
        /\ Cardinality(CallsOf(p, "addCommentToIssue") \cup CallsOf(p, "sendNotification")) >= 2

\* the platforms for which a push of this sync resolved
Pushed(p) ==
    { proc[p].list[i] : i \in { k \in 1..Len(proc[p].settled) : proc[p].settled[k] = "ok" } }

\* C4: after a sync, the services entry of every platform for which no push
\* of the call resolved (its push rejected, or it was not requested) is what
\* it was when the call started.
C4_OnlyPushedEntriesChange ==
    \A p \in Procs :
        (Syncing(p) /\ proc[p].found) =>
            \A q \in Platforms \ Pushed(p) :
                EntryOf(heap[proc[p].updated.services], q) = EntryOf(proc[p].before, q)

\* a sync has finished with a rejected push, a platform it did not request
\* and an entry it changed
C4_Witness ==
    \E p \in Procs :
        /\ Syncing(p) /\ proc[p].pc = "done"
        /\ \E i \in 1..Len(proc[p].list) :
                proc[p].settled[i] = "rejected" /\ proc[p].list[i] \notin Pushed(p)
        /\ \E q \in DOMAIN proc[p].before : \A i \in 1..Len(proc[p].list) : proc[p].list[i] # q
        /\ \E q \in Pushed(p) :
                EntryOf(ServicesOf(proc[p].wid), q) # EntryOf(proc[p].before, q)

\* the errors the steps of the call of p have raised
RaisedErrors(p) ==
    { AdapterError(proc[p].log[i].call) :
            i \in { k \in 1..Len(proc[p].log) : proc[p].log[k].res = "rejected" } }
        \cup { FormatError, ChannelNotFoundError(proc[p].params.slack_channel) }

\* C5: whenever analyzePR, smartTriage or orchestrateRelease rejects, the
\* store then holds a record with status failed under the call's workflow id
\* and the error delivered is the error a step of the call raised.
C5_RejectionLeavesFailedRecord ==
    [][\A p \in Procs :
        (/\ proc[p].pc # "done" /\ proc'[p].pc = "done"
         /\ proc'[p].op \in Analyses /\ proc'[p].outcome = "rejected")
        => /\ proc'[p].wid \in DOMAIN workflowState'
           /\ workflowState'[proc'[p].wid].status = "failed"
           /\ proc'[p].error # NoError]_vars

\* C6: the first record an analysis call writes has status analyzing, the
\* second and last has status completed or failed.
C6_AnalyzingThenCompletedOrFailed ==
    \A p \in Procs :
        (proc[p].op \in Analyses /\ proc[p].puts # <<>>) =>
            /\ proc[p].puts[1].status = "analyzing"
            /\ Len(proc[p].puts) <= 2
            /\ Len(proc[p].puts) = 2 => proc[p].puts[2].status \in {"completed", "failed"}

ChannelWasNull(p) ==
    \E i \in CallsOf(p, "findChannelByName") : proc[p].log[i].res = "null"

NoReleaseSideEffects(p) ==
    /\ CallsOf(p, "createRelease") = {}
    /\ CallsOf(p, "assessReleaseReadiness") = {}
    /\ CallsOf(p, "sendNotification") = {}

\* C7 as stated: once findChannelByName resolved to no channel, the call
\* invokes neither createRelease nor the LLM adapter nor sendNotification,
\* and it ends rejected with an error whose message names the channel.
C7_Original ==
    \A p \in Procs :
        (Releasing(p) /\ ChannelWasNull(p)) =>
            /\ NoReleaseSideEffects(p)
            /\ proc[p].pc = "done" =>
                    /\ proc[p].outcome = "rejected"
                    /\ Includes(proc[p].error.msg, proc[p].params.slack_channel)

\* C7: once findChannelByName resolved to no channel, the call invokes
\* neither createRelease nor the LLM adapter nor sendNotification, whatever
\* dry_run is; it ends rejected, with the error naming the channel when the
\* two other parallel reads resolved and with the error of the read that
\* rejected otherwise.
C7_NoChannelRejects ==
    \A p \in Procs :
        (Releasing(p) /\ ChannelWasNull(p)) =>
            /\ NoReleaseSideEffects(p)
            /\ proc[p].pc \in {"rel_reads", "done"}
            /\ proc[p].pc = "done" =>
                    /\ proc[p].outcome = "rejected"
                    /\ IF proc[p].pending = {}
                       THEN /\ proc[p].error = ChannelNotFoundError(proc[p].params.slack_channel)
                            /\ Includes(proc[p].error.msg, proc[p].params.slack_channel)
                       ELSE \E call \in proc[p].pending \ {"findChannelByName"} :
                                proc[p].error = AdapterError(call)

\* a release that is not a dry run ended on the missing channel after all
\* three reads resolved
C7_Witness ==
    \E p \in Procs :
        /\ Releasing(p) /\ ChannelWasNull(p) /\ proc[p].pc = "done"
        /\ proc[p].pending = {} /\ ~proc[p].params.dry_run
        /\ proc[p].error = ChannelNotFoundError(proc[p].params.slack_channel)

\* C8: for a reported score s in 0..100 the result has readiness s and the
\* recommendation of the thresholds 85 and 70.
C8_ReadinessAndRecommendation ==
    \A p \in Procs :
        (Releasing(p) /\ proc[p].score \in 0..100) =>
            /\ proc[p].result.readiness = proc[p].score
            /\ proc[p].result.recommendation =
                    IF proc[p].score >= 85 THEN "proceed"
                    ELSE IF proc[p].score >= 70 THEN "caution" ELSE "block"

Analysed(p) == Releasing(p) /\ proc[p].chan # <<>> /\ proc[p].result.recommendation # ""

OneNotification(p) ==
    /\ Cardinality(CallsOf(p, "sendNotification")) = 1
    /\ \A i \in CallsOf(p, "sendNotification") :
            /\ proc[p].log[i].target = proc[p].chan
            /\ proc[p].log[i].detail =
                    (CASE proc[p].result.recommendation = "proceed" -> "good"
                       [] proc[p].result.recommendation = "caution" -> "warning"
                       [] proc[p].result.recommendation = "block" -> "danger")

\* C10 as stated: a settled release call with a channel and a readiness
\* analysis has sent exactly one notification, to that channel, coloured by
\* the recommendation.
C10_Original ==
    \A p \in Procs : (Analysed(p) /\ proc[p].pc = "done") => OneNotification(p)

\* C10: a settled release call with a channel and a readiness analysis has
\* sent exactly one notification, to that channel and coloured by the
\* recommendation, unless its createRelease rejected, and then it has sent
\* none.
C10_OneNotificationUnlessCreateFails ==
    \A p \in Procs :
        (Analysed(p) /\ proc[p].pc = "done") =>
            IF \E i \in CallsOf(p, "createRelease") : proc[p].log[i].res = "rejected"
            THEN CallsOf(p, "sendNotification") = {}
            ELSE OneNotification(p)

\* a release with recommendation caution has settled after its notification
C10_Witness ==
    \E p \in Procs :
        /\ Analysed(p) /\ proc[p].pc = "done"
        /\ proc[p].result.recommendation = "caution"
        /\ CallsOf(p, "sendNotification") # {}

\* the call of p has an adapter call named call that settled with res
SettledAs(p, call, res) == \E i \in CallsOf(p, call) : proc[p].log[i].res = res

Triaging(p) == proc[p].op = "smartTriage" /\ proc[p].pc # "idle"

\* C11: a smartTriage call whose audit comment (addCommentToIssue) rejected
\* resolves all the same, and its workflow record ends completed.
C11_CommentFailureStillCompletes ==
    \A p \in Procs :
        (Triaging(p) /\ proc[p].pc = "done" /\ SettledAs(p, "addCommentToIssue", "rejected"))
        => /\ proc[p].outcome = "resolved"
           /\ workflowState[proc[p].wid].status = "completed"

\* github_issue_url values from which no owner, repo and issue number come
UnparsableUrls == { <<"o", "/", "r", "/", "issues", "/">>, <<"issues", "/", "7">> }

\* C12: in smartTriage neither a rejected getIssueDetails, nor an issue URL
\* that does not parse, nor a rejected similar-issue search ends the call:
\* the search follows the context lookup whatever became of it, the LLM
\* adapter is called once the search settled, with an empty similar-issue
\* list when the search rejected, and a rejection of the call is never the
\* error of the lookup or of the search.
C12_BestEffortLookups ==
    \A p \in Procs :
        Triaging(p) =>
            /\ proc[p].outcome = "rejected" =>
                    proc[p].error \in { AdapterError("getIssue"), AdapterError("triageIssue"),
                                        AdapterError("addCommentToIssue") }
            /\ (SettledAs(p, "getIssueDetails", "ok") \/ SettledAs(p, "getIssueDetails", "rejected"))
                    => CallsOf(p, "searchIssues") # {}
            /\ (proc[p].params.github_issue_url \in UnparsableUrls /\ proc[p].pc # "tr_issue"
                    /\ proc[p].error # AdapterError("getIssue"))
                    => CallsOf(p, "getIssueDetails") = {} /\ CallsOf(p, "searchIssues") # {}
            /\ (SettledAs(p, "searchIssues", "ok") \/ SettledAs(p, "searchIssues", "rejected"))
                    => /\ Cardinality(CallsOf(p, "triageIssue")) = 1
                       /\ \A i \in CallsOf(p, "triageIssue") :
                            proc[p].log[i].detail =
                                IF SettledAs(p, "searchIssues", "rejected")
                                THEN "similarIssues=[]" ELSE "similarIssues"

\* a triage has completed although its context lookup and its similar-issue
\* search both rejected
C12_Witness ==
    \E p \in Procs :
        /\ Triaging(p) /\ proc[p].pc = "done" /\ proc[p].outcome = "resolved"
        /\ SettledAs(p, "getIssueDetails", "rejected")
        /\ SettledAs(p, "searchIssues", "rejected")
        /\ workflowState[proc[p].wid].status = "completed"

\* C13: an analyzePR call whose getPRDetails rejected has rejected with the
\* error of that read and has issued no other adapter call.
C13_DetailFailureAborts ==
    \A p \in Procs :
        (proc[p].op = "analyzePR" /\ SettledAs(p, "getPRDetails", "rejected")) =>
            /\ proc[p].pc = "done" /\ proc[p].outcome = "rejected"
            /\ proc[p].error = AdapterError("getPRDetails")
            /\ Len(proc[p].log) = 1

\* an analyzePR call has rejected on its detail read
C13_Witness ==
    \E p \in Procs :
        /\ proc[p].op = "analyzePR" /\ SettledAs(p, "getPRDetails", "rejected")
        /\ proc[p].outcome = "rejected"
        /\ workflowState[proc[p].wid].status = "failed"

\* the text has a non-empty owner before its first '/' and a non-empty repo
\* after it
HasOwnerAndRepo(s) ==
    \E i \in 2..(Len(s) - 1) :
        /\ s[i] = "/" /\ s[i + 1] # "/"
        /\ \A j \in 1..(i - 1) : s[j] # "/"

\* C14: an orchestrateRelease call whose repository lacks a non-empty owner
\* or a non-empty repo around '/' has rejected with the repository-format
\* error and has issued no adapter call.
C14_MalformedRepositoryRejectsFirst ==
    \A p \in Procs :
        (Releasing(p) /\ ~HasOwnerAndRepo(proc[p].params.repository)) =>
            /\ proc[p].pc = "done" /\ proc[p].outcome = "rejected"
            /\ proc[p].error = FormatError
            /\ proc[p].log = <<>>

\* a release call with an empty owner has rejected
C14_Witness ==
    \E p \in Procs :
        /\ Releasing(p) /\ proc[p].params.repository = <<"/", "r">>
        /\ proc[p].outcome = "rejected" /\ proc[p].error = FormatError

\* C15: the step in which a syncWorkflowStatus call resolves leaves the id
\* and the type of the stored record as they were, makes its status the
\* status_update of the call, and stores the record that the call returns.
C15_SyncKeepsIdAndType ==
    [][\A p \in Procs :
        (/\ proc'[p].op = "syncWorkflowStatus" /\ proc'[p].outcome = "resolved"
         /\ proc[p].outcome # "resolved")
        => LET id == proc'[p].wid
           IN  /\ id \in DOMAIN workflowState
               /\ workflowState'[id].id = workflowState[id].id
               /\ workflowState'[id].type = workflowState[id].type
               /\ workflowState'[id].status = proc'[p].params.status_update
               /\ workflowState'[id] = proc'[p].updated]_vars

\* a sync has resolved on a release record and gave it the status deploy failed
C15_Witness ==
    \E p \in Procs :
        /\ Syncing(p) /\ proc[p].pc = "done" /\ proc[p].outcome = "resolved"
        /\ workflowState[proc[p].wid].type = "release"
        /\ workflowState[proc[p].wid].status = "deploy failed"
        /\ proc[p].params.status_update = "deploy failed"

\* C16: no step of a getTeamInsights call, resolving or rejecting, changes
\* the store or a services object.
C16_InsightsLeaveStoreAlone ==
    [][\A p \in Procs :
        (/\ proc'[p] # proc[p]
         /\ proc[p].op = "getTeamInsights" \/ proc'[p].op = "getTeamInsights")
        => (workflowState' = workflowState /\ heap' = heap /\ created' = created)]_vars

\* a getTeamInsights call has rejected while the store holds records
C16_Witness ==
    \E p \in Procs :
        /\ proc[p].op = "getTeamInsights" /\ proc[p].pc = "done"
        /\ proc[p].outcome = "rejected"
        /\ workflowState # <<>>

\* the call of p executes a put in this step
Puts(p) == Len(proc'[p].puts) = Len(proc[p].puts) + 1

\* C17: with an analyzePR and a syncWorkflowStatus interleaved on one
\* workflow id, every put leaves under its id exactly its argument, whatever
\* was stored and whoever stored it, and the stored record is replaced by
\* nothing but a put for its id: the store holds the argument of the last
\* put, and what was written between a call's read and its put is lost.
C17_LastPutWins ==
    [][/\ \A p \in Procs :
            Puts(p) =>
                LET put == proc'[p].puts[Len(proc'[p].puts)]
                IN  /\ put.id \in DOMAIN workflowState'
                    /\ workflowState'[put.id].id = put.id
                    /\ workflowState'[put.id].type = put.type
                    /\ workflowState'[put.id].status = put.status
                    /\ heap'[workflowState'[put.id].services] = put.services
       /\ \A id \in DOMAIN workflowState :
            /\ id \in DOMAIN workflowState'
            /\ workflowState'[id] # workflowState[id] =>
                    \E p \in Procs :
                        Puts(p) /\ proc'[p].puts[Len(proc'[p].puts)].id = id]_vars

\* a sync read the completed record, the analyst then started again and
\* wrote analyzing, and the sync's put replaced that record: the store shows
\* the sync's status and the old pointers while the analysis is running
C17_Witness ==
    /\ Syncing(Syncer) /\ proc[Syncer].pc = "done" /\ proc[Syncer].outcome = "resolved"
    /\ "github" \in DOMAIN proc[Syncer].before
    /\ proc[Analyst].op = "analyzePR" /\ proc[Analyst].pc \notin {"idle", "done"}
    /\ Len(proc[Analyst].puts) = 1 /\ proc[Analyst].puts[1].status = "analyzing"
    /\ proc[Analyst].wid = proc[Syncer].wid
    /\ workflowState[proc[Syncer].wid].status = proc[Syncer].params.status_update
    /\ "github" \in DOMAIN ServicesOf(proc[Syncer].wid)

C20_ReadinessWithin0To100 ==
    \A p \in Procs :
        (Releasing(p) /\ proc[p].result.recommendation # "") =>
            proc[p].result.readiness \in 0..100

\* C21: while a sync of a stored record awaits a push, the store shows the
\* record's services map as it was when the sync read it.
C21_StoreUnchangedDuringSync ==
    \A p \in Procs :
        (Syncing(p) /\ proc[p].found /\ proc[p].pc = "sync_wait")
            => ServicesOf(proc[p].wid) = proc[p].before

\* the pointer field of a platform's services entry
PointerField(q) ==
    CASE q = "github" -> "url" [] q = "jira" -> "key" [] q = "slack" -> "channel"

\* C22: every services entry of every stored record has its platform's
\* pointer field: url for github, key for jira, channel for slack.
C22_EntriesCarryPointers ==
    \A id \in DOMAIN workflowState :
        \A q \in DOMAIN ServicesOf(id) : PointerField(q) \in DOMAIN ServicesOf(id)[q]

\* the adapter reads
Reads ==
    { "getPRDetails", "getRepositoryStats", "getIssue", "getIssueDetails",
      "searchIssues", "getProjectIssueStats", "findChannelByName" }

\* the call of p is an analysis in which read i rejected
ReadRejected(p, i) ==
    /\ proc[p].op \in Analyses /\ i \in 1..Len(proc[p].log)
    /\ proc[p].log[i].call \in Reads /\ proc[p].log[i].res = "rejected"

Caught(p, i) ==
    \/ proc[p].log[i].call \in {"getIssueDetails", "searchIssues"}
    \/ proc[p].op = "analyzePR" /\ proc[p].log[i].call = "getRepositoryStats"
    \/ proc[p].log[i].call = "getIssue" /\ proc[p].log[i].detail = "sprint"

InFlight(p) == { i \in 1..Len(proc[p].log) : proc[p].log[i].res = "pending" }

ParallelReads == {"getRepositoryStats", "getProjectIssueStats", "findChannelByName"}

\* C25: a release call that passed the repository check has issued its three
\* reads, and these first; it has called the LLM adapter only if all three
\* resolved; once one of them rejected the call has rejected and has called
\* neither the LLM adapter nor createRelease nor sendNotification.
C25_ParallelReadsThenAnalysis ==
    \A p \in Procs :
        (Releasing(p) /\ proc[p].puts # <<>>) =>
            /\ Len(proc[p].log) >= 3
            /\ { proc[p].log[i].call : i \in 1..3 } = ParallelReads
            /\ CallsOf(p, "assessReleaseReadiness") # {} =>
                    \A i \in 1..3 : proc[p].log[i].res = "ok"
            /\ (\E i \in 1..3 : proc[p].log[i].res = "rejected") =>
                    /\ proc[p].pc = "done" /\ proc[p].outcome = "rejected"
                    /\ NoReleaseSideEffects(p)

\* a release call has rejected on its tracker-stats read while the two other
\* reads were in flight
C25_Witness ==
    \E p \in Procs :
        /\ Releasing(p) /\ proc[p].outcome = "rejected"
        /\ SettledAs(p, "getProjectIssueStats", "rejected")
        /\ SettledAs(p, "getRepositoryStats", "pending")
        /\ SettledAs(p, "findChannelByName", "pending")

ExactTrend(h) ==
    IF Len(h) < 2 \/ Earlier(h) = <<>> THEN "stable"
    ELSE LET s == Sum(Recent(h))
             n == Len(Recent(h))
             t == Sum(Earlier(h))
             m == Len(Earlier(h))
         IN  IF 10 * s * m > 11 * t * n THEN "increasing"
             ELSE IF 10 * s * m < 9 * t * n THEN "decreasing"
             ELSE "stable"

\* C27: the trend returned for a history is stable when it has fewer than 2
\* samples or none before its last 3, increasing when the mean of the last 3
\* is more than 10% above the mean of the earlier ones, decreasing when it
\* is more than 10% below, and stable otherwise.
C27_TrendAsStated ==
    agent.pc = "returned" => agent.trend = ExactTrend(agent.historical)

\* the positions of the roster whose member the text mentions, in any case
MentionedAt(text, roster) ==
    { i \in 1..Len(roster) :
        \E k \in 0..(Len(text) - Len(roster[i])) :
            \A j \in 1..Len(roster[i]) :
                toLowerCase(<<text[k + j]>>) = toLowerCase(<<roster[i][j]>>) }

\* result lists the members at the lowest n positions of at, in order
ListsFirst(result, roster, at, n) ==
    /\ Len(result) = (IF Cardinality(at) < n THEN Cardinality(at) ELSE n)
    /\ \A k \in 1..Len(result) :
        \E i \in at :
            /\ Cardinality({ j \in at : j < i }) = k - 1
            /\ result[k] = roster[i]

\* C28: without a roster the reviewers are empty; with one they are the
\* mentioned members in roster order, at most the first 3, or the first two
\* roster entries when none is mentioned; so at most 3 and taken from the
\* roster in its order.
C28_Reviewers ==
    agent.pc = "returned" =>
        LET roster == agent.teamMembers.v
            at == MentionedAt(agent.analysis, roster)
        IN  /\ ~agent.teamMembers.defined => agent.reviewers = <<>>
            /\ (agent.teamMembers.defined /\ at # {}) =>
                    ListsFirst(agent.reviewers, roster, at, 3)
            /\ (agent.teamMembers.defined /\ at = {}) =>
                    ListsFirst(agent.reviewers, roster, 1..Len(roster), 2)
            /\ Len(agent.reviewers) <= 3
            /\ \E at2 \in SUBSET (1..Len(roster)) :
                    ListsFirst(agent.reviewers, roster, at2, 3)

\* four members of the roster are mentioned and three are returned
C28_Witness ==
    /\ agent.pc = "returned" /\ agent.teamMembers.defined
    /\ Cardinality(MentionedAt(agent.analysis, agent.teamMembers.v)) = 4
    /\ Len(agent.reviewers) = 3

\* the keywords of each level, and the rank of the levels
RiskKeywords ==
    [high |-> { <<"high", " ", "risk">>, <<"critical">> },
     medium |-> { <<"medium", " ", "risk">>, <<"moderate">> }]
PriorityKeywords ==
    [critical |-> { <<"critical">> },
     high |-> { <<"high", " ", "priority">> },
     medium |-> { <<"medium", " ", "priority">> }]
Rank == [low |-> 0, medium |-> 1, high |-> 2, critical |-> 3]

\* the highest level of keywords that has a keyword in the text, in any
\* case; low when none has
HighestLevel(keywords, text) ==
    LET present == { l \in DOMAIN keywords :
                        \E k \in keywords[l] : Includes(toLowerCase(text), k) }
    IN  IF present = {} THEN "low"
        ELSE CHOOSE l \in present : \A m \in present : Rank[m] <= Rank[l]

\* C29: the risk level and the priority returned are the highest-ranked
\* level with a keyword in the analysis text, whatever its case, and low
\* when no keyword occurs; the risk level is low, medium or high and the
\* priority is low, medium, high or critical.
C29_HighestRankedLevel ==
    agent.pc = "returned" =>
        /\ agent.fn = "analyzePullRequest" =>
            /\ agent.level = HighestLevel(RiskKeywords, agent.analysis)
            /\ agent.level \in {"low", "medium", "high"}
        /\ agent.fn = "triageIssue" =>
            /\ agent.level = HighestLevel(PriorityKeywords, agent.analysis)
            /\ agent.level \in {"low", "medium", "high", "critical"}

\* a text with the keywords of medium and of critical, one in upper case, has
\* priority critical
C29_Witness ==
    /\ agent.pc = "returned" /\ agent.fn = "triageIssue"
    /\ agent.analysis = <<"Medium", " ", "priority", " ", "Critical">>
    /\ agent.level = "critical"

\* the positions of a text at which a dependency phrase with its token begins
ReferencesAt(text) == { i \in 1..Len(text) : MatchAt(text, i).to # 0 }

\* deps lists the tokens referenced in text, in the order of the text, each
\* as often as it is referenced
ListsReferences(deps, text) ==
    /\ Len(deps) = Cardinality(ReferencesAt(text))
    /\ \A k \in 1..Len(deps) :
        \E i \in ReferencesAt(text) :
            /\ Cardinality({ j \in ReferencesAt(text) : j < i }) = k - 1
            /\ deps[k] = SubSeq(text, MatchAt(text, i).from, MatchAt(text, i).to - 1)

\* C30 as stated: the dependencies returned for an issue whose description
\* has dependency phrases are the tokens the description references, in its
\* order.
C30_Original ==
    (agent.pc = "returned" /\ ReferencesAt(agent.description) # {})
        => ListsReferences(agent.dependencies, agent.description)

\* C30: the dependencies returned are the tokens that follow a dependency
\* phrase in the analysis text of the LLM reply, in the order of that text
\* and without deduplication, whatever the description says.
C30_DependenciesFromAnalysis ==
    agent.pc = "returned" => ListsReferences(agent.dependencies, agent.analysis)

\* the description is the example, the analysis names PROJ-12 twice and not
\* PROJ-55, and the dependencies are PROJ-12 twice
C30_Witness ==
    /\ agent.pc = "returned" /\ agent.description = ExampleDescription
    /\ agent.dependencies = << <<"PROJ", "-", "12">>, <<"PROJ", "-", "12">> >>

\* the methods of the tracker adapter
TrackerCalls == { "getIssue", "searchIssues", "addCommentToIssue", "getProjectIssueStats" }

\* the positions of a text at which a ticket key begins
KeysAt(text) ==
    { i \in 1..Len(text) :
        At(text, i) \in UpperWords /\ At(text, i + 1) = "-" /\ At(text, i + 2) \in DigitWords }

\* tickets lists the keys of text, each once, in the order in which they
\* first occur
ListsKeysOnce(tickets, text) ==
    LET key(i) == SubSeq(text, i, i + 2)
        first == { i \in KeysAt(text) : \A j \in KeysAt(text) : key(j) = key(i) => i <= j }
    IN  /\ Len(tickets) = Cardinality(first)
        /\ \A k \in 1..Len(tickets) :
            \E i \in first :
                /\ Cardinality({ j \in first : j < i }) = k - 1
                /\ tickets[k] = key(i)

\* C31: analyzePR issues no call of the tracker adapter; its
\* relatedJiraTickets are the ticket keys of the title and the body, title
\* first, each once and in the order of first occurrence, when
\* include_jira_context is set, and empty when it is not set or there is no
\* key.
C31_TicketsFromTitleAndBody ==
    /\ \A p \in Procs :
        proc[p].op = "analyzePR" =>
            \A i \in 1..Len(proc[p].log) : proc[p].log[i].call \notin TrackerCalls
    /\ agent.pc = "returned" =>
        IF agent.include_jira_context
        THEN ListsKeysOnce(agent.relatedJiraTickets, agent.title \o <<" ">> \o agent.body)
        ELSE agent.relatedJiraTickets = <<>>

\* an analyzePR call has resolved, and for a title that names PROJ-55 and a
\* body that names PROJ-12 and PROJ-55 the tickets are PROJ-55, PROJ-12
C31_Witness ==
    /\ \E p \in Procs :
        proc[p].op = "analyzePR" /\ proc[p].pc = "done" /\ proc[p].outcome = "resolved"
    /\ agent.pc = "returned" /\ agent.include_jira_context
    /\ agent.title = <<"PROJ", "-", "55", " ", "fix">>
    /\ agent.body = <<"see", " ", "PROJ", "-", "12", " ", "and", " ", "PROJ", "-", "55">>
    /\ agent.relatedJiraTickets = << <<"PROJ", "-", "55">>, <<"PROJ", "-", "12">> >>

\* the record type of the operation whose ids begin like the key
TypeOfKey(k) ==
    CASE k[1] = "pr" -> "pr" [] k[1] = "triage" -> "issue" [] k[1] = "release" -> "release"

\* C32: every record is stored under its own id and has the type of the
\* operation that creates that id: pr for analyzePR, issue for smartTriage,
\* release for orchestrateRelease; no step removes a key or changes the id
\* or the type stored under an existing key.
C32_IdAndTypeFixed ==
    /\ [](\A k \in DOMAIN workflowState :
            workflowState[k].id = k /\ workflowState[k].type = TypeOfKey(k))
    /\ [][\A k \in DOMAIN workflowState :
            /\ k \in DOMAIN workflowState'
            /\ workflowState'[k].id = workflowState[k].id
            /\ workflowState'[k].type = workflowState[k].type]_vars

\* the store holds a record of each type, one of them failed, and a sync of
\* one of them has resolved
C32_Witness ==
    /\ { workflowState[k].type : k \in DOMAIN workflowState } = {"pr", "issue", "release"}
    /\ \E k \in DOMAIN workflowState :
        workflowState[k].status = "failed" /\ workflowState[k].type # "pr"
    /\ \E p \in Procs : Syncing(p) /\ proc[p].pc = "done" /\ proc[p].outcome = "resolved"

\* the call of p is an analysis that has written its first record
Begun(p) == proc[p].op \in Analyses /\ proc[p].puts # <<>>

\* C33: an analysis that has written its first record settles in the end;
\* until then it has written no other record, and when it has settled it has
\* written exactly one more, under its id, with status completed if it
\* resolved and failed if it rejected.
C33_SettlesWithOneFinalRecord ==
    /\ \A p \in Callers : Begun(p) ~> (Begun(p) /\ proc[p].pc = "done")
    /\ [](\A p \in Callers :
            Begun(p) =>
                IF proc[p].pc # "done" THEN Len(proc[p].puts) = 1
                ELSE /\ Len(proc[p].puts) = 2
                     /\ proc[p].puts[2].id = proc[p].wid
                     /\ proc[p].puts[2].status =
                            (IF proc[p].outcome = "resolved" THEN "completed" ELSE "failed")
                     /\ proc[p].outcome \in {"resolved", "rejected"})

\* a release has rejected after createRelease resolved: its notification
\* rejected, and its second record is failed
C33_Witness ==
    \E p \in Procs :
        /\ Releasing(p) /\ proc[p].pc = "done" /\ proc[p].outcome = "rejected"
        /\ SettledAs(p, "sendNotification", "rejected")
        /\ Len(proc[p].puts) = 2 /\ proc[p].puts[2].status = "failed"

\* C34: an orchestrateRelease call that has rejected, its record marked
\* failed, is a call in which createRelease did not complete successfully:
\* a failed release record means that no release was created.
C34_FailedMeansNoRelease ==
    \A p \in Procs :
        (/\ Releasing(p) /\ proc[p].pc = "done" /\ proc[p].outcome = "rejected"
         /\ Len(proc[p].puts) = 2 /\ proc[p].puts[2].status = "failed") =>
            ~SettledAs(p, "createRelease", "ok")

\* C35: workflow ids are unique per target: two analyzePR calls with
\* different (owner, repo, pull_number) use different store keys, and two
\* orchestrateRelease calls for different repositories use different store
\* keys.
C35_IdsUniquePerTarget ==
    agent.pc = "returned" =>
        /\ (agent.op = "analyzePR" /\ agent.first # agent.second) =>
                agent.ids[1] # agent.ids[2]
        /\ (agent.op = "orchestrateRelease" /\ agent.first[2] # agent.second[2]) =>
                agent.ids[1] # agent.ids[2]

\* C36: a sync pushes to the requested platforms one at a time in the order
\* given: while it waits for the push of position idx, the pushes of the
\* positions before it have all settled and no record has been written; the
\* step in which a push settles starts the next push, or after the last one
\* writes the record, once; with platforms omitted the order is github,
\* jira, slack.
C36_PushesInOrderThenOnePut ==
    /\ [](\A p \in Procs :
            (Syncing(p) /\ proc[p].found) =>
                /\ proc[p].list = IF proc[p].params.platforms.given
                                  THEN proc[p].params.platforms.list
                                  ELSE <<"github", "jira", "slack">>
                /\ \A i \in 1..Len(proc[p].log) :
                        proc[p].log[i].res = "pending" =>
                            (i = Len(proc[p].log) /\ proc[p].pc = "sync_wait"
                                /\ proc[p].push = "call")
                /\ proc[p].pc = "sync_wait" =>
                        /\ proc[p].attempted = SubSeq(proc[p].list, 1, proc[p].idx)
                        /\ Len(proc[p].settled) = proc[p].idx - 1
                        /\ proc[p].puts = <<>>
                /\ proc[p].pc = "done" =>
                        /\ proc[p].attempted = proc[p].list
                        /\ Len(proc[p].settled) = Len(proc[p].list)
                        /\ Len(proc[p].puts) = 1)
    /\ [][\A p \in Procs :
            (Syncing(p) /\ proc[p].pc = "sync_wait" /\ proc'[p] # proc[p]) =>
                /\ Len(proc'[p].settled) = proc[p].idx
                /\ IF proc[p].idx < Len(proc[p].list)
                   THEN /\ proc'[p].pc = "sync_wait" /\ proc'[p].idx = proc[p].idx + 1
                        /\ workflowState' = workflowState
                   ELSE /\ proc'[p].pc = "done"
                        /\ proc'[p].puts = <<[id |-> proc[p].wid,
                                              type |-> workflowState[proc[p].wid].type,
                                              status |-> proc[p].params.status_update,
                                              services |-> heap'[proc[p].updated.services]]>>]_vars

\* a sync with platforms omitted has finished: its second push rejected, the
\* third was issued after it, and one record was written
C36_Witness ==
    \E p \in Procs :
        /\ Syncing(p) /\ proc[p].pc = "done" /\ ~proc[p].params.platforms.given
        /\ proc[p].attempted = <<"github", "jira", "slack">>
        /\ proc[p].settled[2] = "rejected"
        /\ CallsOf(p, "addCommentToIssue") # {} /\ CallsOf(p, "sendNotification") # {}
        /\ \A i \in CallsOf(p, "addCommentToIssue"), j \in CallsOf(p, "sendNotification") : i < j
        /\ Len(proc[p].puts) = 1

\* the write adapter of a platform
WriteAdapter(q) ==
    CASE q = "github" -> "updatePRStatus"
      [] q = "jira" -> "addCommentToIssue"
      [] q = "slack" -> "sendNotification"

\* the pointer a record's services hold for a platform: a pull-request URL,
\* an issue key, a channel; <<>> when they hold none
PointerOf(services, q) ==
    LET f == PointerField(q)
    IN  IF q \in DOMAIN services /\ f \in DOMAIN services[q]
        THEN IF q = "github" /\ (\A i \in 1..Len(services[q][f]) : services[q][f][i] # "pull")
             THEN <<>>
             ELSE services[q][f]
        ELSE <<>>

\* C37: a sync calls a platform's write adapter only when the record it read
\* from the store holds that platform's pointer: updatePRStatus only for a
\* pull-request URL, addCommentToIssue only for an issue key, sendNotification
\* only for a channel, at most once for each position of the platform in the
\* list and aimed at the pointer; for a platform without a pointer it calls
\* no adapter.
C37_PushOnlyWithPointer ==
    \A p \in Procs :
        (Syncing(p) /\ proc[p].found) =>
            /\ \A i \in 1..Len(proc[p].log) :
                    \E q \in Platforms : proc[p].log[i].call = WriteAdapter(q)
            /\ \A q \in Platforms :
                    LET calls == CallsOf(p, WriteAdapter(q))
                        pointer == PointerOf(proc[p].before, q)
                    IN  IF pointer = <<>>
                        THEN calls = {}
                        ELSE /\ Cardinality(calls) <=
                                    Cardinality({ i \in 1..Len(proc[p].attempted) :
                                                    proc[p].attempted[i] = q })
                             /\ q # "github" =>
                                    \A i \in calls : proc[p].log[i].target = pointer

\* a sync of a release record has finished: github and jira were both
\* requested, the record's URL is not a pull-request URL and no status
\* check was posted, while the comment was posted to the record's key
C37_Witness ==
    \E p \in Procs :
        /\ Syncing(p) /\ proc[p].pc = "done"
        /\ "github" \in DOMAIN proc[p].before /\ "url" \in DOMAIN proc[p].before.github
        /\ \E i, j \in 1..Len(proc[p].attempted) :
                proc[p].attempted[i] = "github" /\ proc[p].attempted[j] = "jira"
        /\ CallsOf(p, "updatePRStatus") = {}
        /\ CallsOf(p, "addCommentToIssue") # {}

\* C38: a record that analyzePR, smartTriage or orchestrateRelease writes
\* with status analyzing or failed (and the first record of smartTriage,
\* whose status is triaging) has an empty services map, and the step that
\* writes it leaves the store with no entry for any platform under that id,
\* whatever pointers the record it replaces held.
C38_OpenAndFailedRecordsHoldNoPointers ==
    /\ [](\A p \in Procs :
            proc[p].op \in Analyses =>
                \A i \in 1..Len(proc[p].puts) :
                    proc[p].puts[i].status # "completed" =>
                        /\ proc[p].puts[i].status \in {"analyzing", "triaging", "failed"}
                        /\ proc[p].puts[i].services = EmptyServices)
    /\ [][\A p \in Procs :
            (/\ proc'[p].op \in Analyses
             /\ Len(proc'[p].puts) = Len(proc[p].puts) + 1
             /\ proc'[p].puts[Len(proc'[p].puts)].status # "completed") =>
                DOMAIN heap'[workflowState'[proc'[p].wid].services] = {}]_vars

\* a sync read a record with a pointer and still awaits its push; meanwhile
\* an analysis of the same id was run again and failed, and the stored
\* record holds no entry
C38_Witness ==
    /\ Syncing(Syncer) /\ proc[Syncer].found /\ proc[Syncer].pc = "sync_wait"
    /\ \E q \in Platforms : PointerOf(proc[Syncer].before, q) # <<>>
    /\ proc[Analyst].op \in Analyses /\ proc[Analyst].wid = proc[Syncer].wid
    /\ proc[Analyst].pc = "done" /\ proc[Analyst].outcome = "rejected"
    /\ Len(proc[Analyst].puts) = 2 /\ proc[Analyst].prior # "none"
    /\ DOMAIN ServicesOf(proc[Analyst].wid) = {}

\* C19: the confidence of a result the LLM adapter returns is the reported
\* number brought into 0..100: 0 for a number below 0, 100 for a number above
\* 100 and the number itself inside the range.
C19_ConfidenceClamped ==
    (agent.pc = "done" /\ agent.outcome = "resolved" /\ ~agent.reported.nan) =>
        /\ ~agent.confidence.nan
        /\ agent.confidence.v \in 0..100
        /\ agent.reported.v < 0 => agent.confidence.v = 0
        /\ agent.reported.v > 100 => agent.confidence.v = 100
        /\ agent.reported.v \in 0..100 => agent.confidence.v = agent.reported.v

\* a result was returned for a reported confidence of 150
C19_Witness ==
    /\ agent.pc = "done" /\ agent.outcome = "resolved"
    /\ agent.reported = Num(150) /\ agent.confidence = Num(100)

====
